---- MODULE Spec2Model ----
(***************************************************************************)
(* Ticket consistency core of yya-open/tikets: the optimistic-concurrency  *)
(* update, the soft-delete lifecycle, keyset pagination and the merge      *)
(* import (preview / apply / replace-all), over one D1 (SQLite) table.     *)
(*                                                                         *)
(* Representation.  Text that the code orders, trims, parses or encodes    *)
(* (date, issue, updated_at, deleted_at, cursors) is a sequence of         *)
(* character codes, so comparison is the byte-wise comparison SQLite and   *)
(* JavaScript perform.  Free text that is only copied (department, name,   *)
(* solution, remarks, type) is a TLA+ string.  SQL NULL is NULL (text      *)
(* columns) or NullTs (integer column); a missing JSON id is NoId.         *)
(* The clock is the wall clock in milliseconds; it starts shortly after    *)
(* the epoch so that every timestamp fits TLC's integers, and              *)
(* CURRENT_TIMESTAMP is its "YYYY-MM-DD HH:MM:SS" rendering.               *)
(***************************************************************************)
EXTENDS Integers, Sequences, FiniteSets, TLC

\* ------------------------------------------------------------------ bounds
\* The clock runs from StartNow to at most MaxNow, in ticks of TickMs.
MaxNow == 1500
TickMs == 500
StartNow == 1000
\* The updated_at_ts an exported record carries (a clock reading of the
\* exporting side, between two ticks of this side's clock).
ExportTs == 1250
\* Ids the store may hand out or an import may carry: 1..MaxId.
MaxId == 2
\* Pages a pagination walk may request before it is cut off.
MaxPages == 4
\* Requests the clients send in one run (the pages a walk follows not counted).
MaxRequests == 3

\* ------------------------------------------------------- program constants
\* import apply: statements per db.batch()
BATCH == 90
\* milliseconds per second: strftime('%s', ...) * 1000, Date.UTC
MsPerSec == 1000
\* replace-all import: statements per db.batch()
ReplaceBATCH == 100

\* ----------------------------------------------------------- SQL / JS nulls
NULL == <<0>>
NullTs == 0 - 1
NoId == 0
\* an is_deleted flag the incoming record does not carry
NoFlag == 2

\* ------------------------------------------------------------------- text
\* "1970-01-01", "00:00:"
EpochDay == <<49, 57, 55, 48, 45, 48, 49, 45, 48, 49>>
ZeroHM == <<48, 48, 58, 48, 48, 58>>

IsSpace(c) == c \in {9, 10, 13, 32}

IsDigit(c) == c \in 48..57

RECURSIVE TrimLeft(_)
TrimLeft(s) ==
  IF s # <<>> /\ IsSpace(Head(s)) THEN TrimLeft(Tail(s)) ELSE s

RECURSIVE TrimRight(_)
TrimRight(s) ==
  IF s # <<>> /\ IsSpace(s[Len(s)]) THEN TrimRight(SubSeq(s, 1, Len(s) - 1)) ELSE s

\* String.prototype.trim
Trim(s) == TrimRight(TrimLeft(s))

\* a < b for text: code unit by code unit, a proper prefix is smaller
RECURSIVE StrLess(_, _)
StrLess(a, b) ==
  IF b = <<>> THEN FALSE
  ELSE IF a = <<>> THEN TRUE
  ELSE IF Head(a) # Head(b) THEN Head(a) < Head(b)
  ELSE StrLess(Tail(a), Tail(b))

\* decimal digits of a non-negative integer
RECURSIVE Digits(_)
Digits(n) ==
  IF n < 10 THEN <<48 + n>> ELSE Digits(n \div 10) \o <<48 + (n % 10)>>

RECURSIVE DigitsValue(_)
DigitsValue(s) ==
  IF s = <<>> THEN 0 ELSE DigitsValue(SubSeq(s, 1, Len(s) - 1)) * 10 + (s[Len(s)] - 48)

TwoDigits(n) == <<48 + (n \div 10), 48 + (n % 10)>>

\* CURRENT_TIMESTAMP / datetime('now') at wall-clock time ms
CurrentTimestamp(ms) ==
  EpochDay \o <<32>> \o ZeroHM \o TwoDigits(ms \div MsPerSec)

\* "YYYY-MM-DD[ T]HH:MM:SS" within the first minute of the epoch day:
\* the seconds it denotes, or NullTs when the text is no such timestamp
ClockSeconds(s) ==
  IF /\ Len(s) = 19
     /\ SubSeq(s, 1, 10) = EpochDay
     /\ s[11] \in {32, 84}
     /\ SubSeq(s, 12, 17) = ZeroHM
     /\ IsDigit(s[18]) /\ IsDigit(s[19])
     /\ DigitsValue(SubSeq(s, 18, 19)) < 60
  THEN DigitsValue(SubSeq(s, 18, 19))
  ELSE NullTs

\* parseUpdatedAtToTs: Date.parse, then the SQLite-format regex, else 0
ParseUpdatedAtToTs(updatedAt) ==
  LET s == Trim(updatedAt)
  IN IF s = <<>> THEN 0
     ELSE IF ClockSeconds(s) # NullTs THEN ClockSeconds(s) * MsPerSec
     ELSE 0

\* CAST(strftime('%s', updated_at) AS INTEGER) * 1000; NULL for text SQLite
\* cannot read as a time
StrftimeMs(updated_at) ==
  IF ClockSeconds(updated_at) # NullTs THEN ClockSeconds(updated_at) * MsPerSec ELSE NullTs

\* ------------------------------------------------------------ the table
\* One row of tickets (schema.sql).  The store maps id -> row.
Row(body, updated_at, updated_at_ts, is_deleted, deleted_at) ==
  [date |-> body.date, issue |-> body.issue, department |-> body.department,
   name |-> body.name, solution |-> body.solution, remarks |-> body.remarks,
   type |-> body.type, updated_at |-> updated_at, updated_at_ts |-> updated_at_ts,
   is_deleted |-> is_deleted, deleted_at |-> deleted_at]

\* the seven content columns of a row or of a request body
Content(r) ==
  [date |-> r.date, issue |-> r.issue, department |-> r.department,
   name |-> r.name, solution |-> r.solution, remarks |-> r.remarks, type |-> r.type]

\* a store with row id set (inserted or replaced)
WithRow(st, id, row) ==
  [i \in DOMAIN st \cup {id} |-> IF i = id THEN row ELSE st[i]]

WithoutRow(st, id) == [i \in DOMAIN st \ {id} |-> st[i]]

EmptyStore == [i \in {} |-> 0]

MaxOf(S) == IF S = {} THEN 0 ELSE CHOOSE m \in S : \A x \in S : x <= m

\* INTEGER PRIMARY KEY AUTOINCREMENT: the rowid for an INSERT without id is
\* one more than the largest rowid ever held (sqlite_sequence)
NextRowId(st, sq) == MaxOf(DOMAIN st \cup {sq}) + 1

\* isDeletedRow
isDeletedRow(row) == row.is_deleted = 1

\* COALESCE(updated_at_ts, 0)
CoalesceTs(ts) == IF ts = NullTs THEN 0 ELSE ts

\* Number(x ?? 0) || 0 on a stored updated_at_ts
NumberOrZero(ts) == IF ts = NullTs THEN 0 ELSE ts

\* String(x ?? "") on a stored text column
StringOrEmpty(s) == IF s = NULL THEN <<>> ELSE s

\* ------------------------------------------- single-record SQL statements
\* Each statement yields the table after it and meta.changes.  nowTs is the
\* handler's Date.now(), bound as a parameter; dbNow is the clock when the
\* statement executes, rendered by CURRENT_TIMESTAMP.

\* (variant for sensitivity checks: the forced UPDATE with a version test,
\* AND COALESCE(updated_at_ts,0) < ?)
UpdateForceIfOlder(st, id, body, nowTs, dbNow) ==
  IF id \in DOMAIN st /\ st[id].is_deleted = 0 /\ CoalesceTs(st[id].updated_at_ts) < nowTs
  THEN [st |-> WithRow(st, id, Row(body, CurrentTimestamp(dbNow), nowTs,
                                   st[id].is_deleted, st[id].deleted_at)),
        changes |-> 1]
  ELSE [st |-> st, changes |-> 0]

\* UPDATE tickets SET <content>, updated_at=CURRENT_TIMESTAMP, updated_at_ts=?
\*  WHERE id=? AND is_deleted=0                      (PUT, force)
UpdateForce(st, id, body, nowTs, dbNow) ==
  IF id \in DOMAIN st /\ st[id].is_deleted = 0
  THEN [st |-> WithRow(st, id, Row(body, CurrentTimestamp(dbNow), nowTs,
                                   st[id].is_deleted, st[id].deleted_at)),
        changes |-> 1]
  ELSE [st |-> st, changes |-> 0]

\* (variant for sensitivity checks: the numeric token is not compared)
UpdateIfTsUnchecked(st, id, body, nowTs, dbNow, clientUpdatedAtTs) ==
  UpdateForce(st, id, body, nowTs, dbNow)

\*  ... WHERE id=? AND is_deleted=0 AND updated_at_ts=?   (PUT, numeric token)
UpdateIfTs(st, id, body, nowTs, dbNow, clientUpdatedAtTs) ==
  IF /\ id \in DOMAIN st
     /\ st[id].updated_at_ts # NullTs
     /\ st[id].updated_at_ts = clientUpdatedAtTs
  THEN UpdateForce(st, id, body, nowTs, dbNow)
  ELSE [st |-> st, changes |-> 0]

\*  ... WHERE id=? AND is_deleted=0 AND updated_at=?      (PUT, string token)
UpdateIfStr(st, id, body, nowTs, dbNow, clientUpdatedAt) ==
  IF /\ id \in DOMAIN st
     /\ st[id].updated_at # NULL
     /\ st[id].updated_at = clientUpdatedAt
  THEN UpdateForce(st, id, body, nowTs, dbNow)
  ELSE [st |-> st, changes |-> 0]

\* The UPDATEs of the PUT handler's catch block (written for a schema without
\* is_deleted): the same SET, WHERE id=?                    (force)
UpdateForceOld(st, id, body, nowTs, dbNow) ==
  IF id \in DOMAIN st
  THEN [st |-> WithRow(st, id, Row(body, CurrentTimestamp(dbNow), nowTs,
                                   st[id].is_deleted, st[id].deleted_at)),
        changes |-> 1]
  ELSE [st |-> st, changes |-> 0]

\*  ... WHERE id=? AND updated_at_ts=?                (catch, numeric token)
UpdateIfTsOld(st, id, body, nowTs, dbNow, clientUpdatedAtTs) ==
  IF /\ id \in DOMAIN st
     /\ st[id].updated_at_ts # NullTs
     /\ st[id].updated_at_ts = clientUpdatedAtTs
  THEN UpdateForceOld(st, id, body, nowTs, dbNow)
  ELSE [st |-> st, changes |-> 0]

\* SET <content>, updated_at=CURRENT_TIMESTAMP WHERE id=? AND updated_at=?
\*                                                    (catch, string token)
UpdateIfStrOld(st, id, body, dbNow, clientUpdatedAt) ==
  IF /\ id \in DOMAIN st
     /\ st[id].updated_at # NULL
     /\ st[id].updated_at = clientUpdatedAt
  THEN [st |-> WithRow(st, id, Row(body, CurrentTimestamp(dbNow), st[id].updated_at_ts,
                                   st[id].is_deleted, st[id].deleted_at)),
        changes |-> 1]
  ELSE [st |-> st, changes |-> 0]

\* (variant for sensitivity checks: WHERE id=? without is_deleted=0)
SoftDeleteStmtUnchecked(st, id, nowTs, dbNow) ==
  IF id \in DOMAIN st
  THEN [st |-> WithRow(st, id, [st[id] EXCEPT !.is_deleted = 1,
                                  !.deleted_at = CurrentTimestamp(dbNow),
                                  !.updated_at = CurrentTimestamp(dbNow),
                                  !.updated_at_ts = nowTs]),
        changes |-> 1]
  ELSE [st |-> st, changes |-> 0]

\* UPDATE tickets SET is_deleted=1, deleted_at=CURRENT_TIMESTAMP,
\*  updated_at=CURRENT_TIMESTAMP, updated_at_ts=? WHERE id=? AND is_deleted=0
SoftDeleteStmt(st, id, nowTs, dbNow) ==
  IF id \in DOMAIN st /\ st[id].is_deleted = 0
  THEN [st |-> WithRow(st, id, [st[id] EXCEPT !.is_deleted = 1,
                                  !.deleted_at = CurrentTimestamp(dbNow),
                                  !.updated_at = CurrentTimestamp(dbNow),
                                  !.updated_at_ts = nowTs]),
        changes |-> 1]
  ELSE [st |-> st, changes |-> 0]

\* (variant for sensitivity checks: WHERE id=? without is_deleted=1)
RestoreStmtUnchecked(st, id, nowTs, dbNow) ==
  IF id \in DOMAIN st
  THEN [st |-> WithRow(st, id, [st[id] EXCEPT !.is_deleted = 0,
                                  !.deleted_at = NULL,
                                  !.updated_at = CurrentTimestamp(dbNow),
                                  !.updated_at_ts = nowTs]),
        changes |-> 1]
  ELSE [st |-> st, changes |-> 0]

\* UPDATE tickets SET is_deleted=0, deleted_at=NULL,
\*  updated_at=CURRENT_TIMESTAMP, updated_at_ts=? WHERE id=? AND is_deleted=1
RestoreStmt(st, id, nowTs, dbNow) ==
  IF id \in DOMAIN st /\ st[id].is_deleted = 1
  THEN [st |-> WithRow(st, id, [st[id] EXCEPT !.is_deleted = 0,
                                  !.deleted_at = NULL,
                                  !.updated_at = CurrentTimestamp(dbNow),
                                  !.updated_at_ts = nowTs]),
        changes |-> 1]
  ELSE [st |-> st, changes |-> 0]

\* (variant for sensitivity checks: DELETE FROM tickets, without WHERE id=?)
HardDeleteStmtAll(st, id) ==
  IF id \in DOMAIN st
  THEN [st |-> EmptyStore, changes |-> Cardinality(DOMAIN st)]
  ELSE [st |-> st, changes |-> 0]

\* DELETE FROM tickets WHERE id=?
HardDeleteStmt(st, id) ==
  IF id \in DOMAIN st
  THEN [st |-> WithoutRow(st, id), changes |-> 1]
  ELSE [st |-> st, changes |-> 0]

\* variant: the INSERT binds no updated_at_ts and leaves the stamp to the
\* backfill that follows
CreateInsertUnstamped(st, sq, body, nowTs, dbNow) ==
  LET id == NextRowId(st, sq)
  IN [st |-> WithRow(st, id, Row(body, CurrentTimestamp(dbNow), NullTs, 0, NULL)),
      last_row_id |-> id]

\* INSERT INTO tickets (<content>, updated_at, updated_at_ts)
\*  VALUES (..., CURRENT_TIMESTAMP, ?)   -- is_deleted DEFAULT 0, deleted_at NULL
CreateInsert(st, sq, body, nowTs, dbNow) ==
  LET id == NextRowId(st, sq)
  IN [st |-> WithRow(st, id, Row(body, CurrentTimestamp(dbNow), nowTs, 0, NULL)),
      last_row_id |-> id]

\* UPDATE tickets SET updated_at_ts=? WHERE id=? AND
\*  (updated_at_ts IS NULL OR updated_at_ts=0)
CreateBackfill(st, id, nowTs) ==
  IF id \in DOMAIN st /\ st[id].updated_at_ts \in {NullTs, 0}
  THEN WithRow(st, id, [st[id] EXCEPT !.updated_at_ts = nowTs])
  ELSE st

\* ---------------------------------------------------------- merge import
\* An incoming JSON record has the row's field names; a field the sender left
\* out is NULL (text), 0 (updated_at_ts) or NoId (id).

\* Backfill of ensureSoftDeleteColumns (the columns exist, so no ALTER runs):
\* UPDATE tickets SET updated_at_ts = CAST(strftime('%s', updated_at) AS INTEGER) * 1000
\*  WHERE (updated_at_ts IS NULL OR updated_at_ts = 0)
\*    AND updated_at IS NOT NULL AND TRIM(updated_at) <> ''
ensureSoftDeleteColumns(st) ==
  [i \in DOMAIN st |->
     IF /\ st[i].updated_at_ts \in {NullTs, 0}
        /\ st[i].updated_at # NULL
        /\ Trim(st[i].updated_at) # <<>>
     THEN [st[i] EXCEPT !.updated_at_ts = StrftimeMs(st[i].updated_at)]
     ELSE st[i]]

\* normalizeRecord of import apply
normalizeRecord(r, forceDeletedFlag) ==
  LET updatedAt == Trim(StringOrEmpty(r.updated_at))
      updated_at_ts == IF r.updated_at_ts > 0 THEN r.updated_at_ts
                       ELSE ParseUpdatedAtToTs(updatedAt)
  IN [id |-> r.id,
      date |-> Trim(StringOrEmpty(r.date)),
      issue |-> Trim(StringOrEmpty(r.issue)),
      department |-> r.department, name |-> r.name, solution |-> r.solution,
      remarks |-> r.remarks, type |-> r.type,
      updated_at |-> updatedAt,
      updated_at_ts |-> updated_at_ts,
      has_version |-> (updated_at_ts > 0) \/ (Len(updatedAt) > 0),
      is_deleted |-> forceDeletedFlag,
      deleted_at |-> Trim(StringOrEmpty(r.deleted_at))]

\* normalizeAll(parsePayload(payload)).all: the active records, then the trash
normalizeAll(payload) ==
  [k \in 1..Len(payload.active) |-> normalizeRecord(payload.active[k], 0)]
  \o [k \in 1..Len(payload.trash) |-> normalizeRecord(payload.trash[k], 1)]

\* (variant for sensitivity checks: only the first record is looked at)
HasBadRecordFirstOnly(incoming) ==
  Len(incoming) > 0 /\ (incoming[1].date = <<>> \/ incoming[1].issue = <<>>)

\* incoming.find((r) => !r.date || !r.issue)
HasBadRecord(incoming) ==
  \E k \in 1..Len(incoming) : incoming[k].date = <<>> \/ incoming[k].issue = <<>>

\* the finite ids of the incoming records
IncomingIds(incoming) ==
  {incoming[k].id : k \in 1..Len(incoming)} \ {NoId}

\* fetchExistingUpdatedMap (apply): id -> {ts, s} for the ids that have a row
fetchExistingUpdatedMap(st, ids) ==
  [i \in ids \cap DOMAIN st |->
     [ts |-> NumberOrZero(st[i].updated_at_ts), s |-> StringOrEmpty(st[i].updated_at)]]

\* the upsert statement of import apply, bound to record r:
\* INSERT ... ON CONFLICT(id) DO UPDATE SET ... WHERE (?=1) AND
\*   COALESCE(excluded.updated_at_ts,0) > COALESCE(tickets.updated_at_ts,0)
\* nowTs is the Date.now() taken when the statement was built.
UpsertRow(r, nowTs, dbNow) ==
  LET incomingTs == r.updated_at_ts
      tsForInsert == IF incomingTs > 0 THEN incomingTs ELSE nowTs
  IN Row(r,
         IF r.updated_at = <<>> THEN CurrentTimestamp(dbNow) ELSE r.updated_at,
         IF r.has_version THEN incomingTs ELSE tsForInsert,
         r.is_deleted,
         IF r.is_deleted = 1
         THEN (IF r.deleted_at = <<>> THEN CurrentTimestamp(dbNow) ELSE r.deleted_at)
         ELSE NULL)

\* (variant for sensitivity checks: the WHERE clause without its (?=1) test)
UpsertOverwritesUnguarded(hasVer, excluded, row) ==
  CoalesceTs(excluded.updated_at_ts) > CoalesceTs(row.updated_at_ts)

\* the ON CONFLICT ... WHERE clause: hasVer is the bound (?=1) flag, excluded
\* the row the INSERT proposed, row the stored one
UpsertOverwrites(hasVer, excluded, row) ==
  hasVer /\ CoalesceTs(excluded.updated_at_ts) > CoalesceTs(row.updated_at_ts)

\* (variant for sensitivity checks: ON CONFLICT DO UPDATE without comparing
\* the stored updated_at_ts)
UpsertBlind(db, r, nowTs, dbNow) ==
  IF r.id = NoId
  THEN LET id == NextRowId(db.st, db.sq)
       IN [st |-> WithRow(db.st, id, UpsertRow(r, nowTs, dbNow)), sq |-> id]
  ELSE IF r.id \notin DOMAIN db.st
  THEN [st |-> WithRow(db.st, r.id, UpsertRow(r, nowTs, dbNow)),
        sq |-> MaxOf({db.sq, r.id})]
  ELSE IF r.has_version
  THEN [st |-> WithRow(db.st, r.id, UpsertRow(r, nowTs, dbNow)), sq |-> db.sq]
  ELSE db

\* one upsert statement executed on db = [st, sq]
Upsert(db, r, nowTs, dbNow) ==
  IF r.id = NoId
  THEN LET id == NextRowId(db.st, db.sq)
       IN [st |-> WithRow(db.st, id, UpsertRow(r, nowTs, dbNow)), sq |-> id]
  ELSE IF r.id \notin DOMAIN db.st
  THEN [st |-> WithRow(db.st, r.id, UpsertRow(r, nowTs, dbNow)),
        sq |-> MaxOf({db.sq, r.id})]
  ELSE IF UpsertOverwrites(r.has_version, UpsertRow(r, nowTs, dbNow), db.st[r.id])
  THEN [st |-> WithRow(db.st, r.id, UpsertRow(r, nowTs, dbNow)), sq |-> db.sq]
  ELSE db

\* the two halves of a list of statements or records
FirstHalf(q) == SubSeq(q, 1, Len(q) \div 2)

SecondHalf(q) == SubSeq(q, Len(q) \div 2 + 1, Len(q))

\* TRUE for every value; evaluating it makes the model checker compute v at
\* this point, so that a long run of statements is not left pending
Computed(v) == v = v

\* env.DB.batch(stmts): the statements of one chunk, in order, in one
\* transaction (the first half of the chunk, then the second)
RECURSIVE ApplyBatch(_, _, _, _)
ApplyBatch(db, chunk, nowTs, dbNow) ==
  IF chunk = <<>> THEN db
  ELSE IF Len(chunk) = 1 THEN Upsert(db, chunk[1], nowTs, dbNow)
  ELSE LET mid == ApplyBatch(db, FirstHalf(chunk), nowTs, dbNow)
       IN IF Computed(mid) THEN ApplyBatch(mid, SecondHalf(chunk), nowTs, dbNow) ELSE mid

\* (variant for sensitivity checks: a failed batch keeps its first statement)
BatchFailurePartial(db, chunk, nowTs, dbNow) ==
  IF chunk = <<>> THEN db ELSE Upsert(db, Head(chunk), nowTs, dbNow)

\* env.DB.batch(stmts) throws: the batch is one transaction, so the database
\* is as it was before the batch
BatchFailure(db, chunk, nowTs, dbNow) == db

ZeroTotals == [inserts |-> 0, updates |-> 0, skips |-> 0, skipped_newer_or_equal |-> 0]

\* (variant for sensitivity checks: a record as new as the stored row counts
\* as an update)
ApplyStatEqualUpdates(acc, r, nowTs) ==
  LET has == r.id # NoId /\ r.id \in DOMAIN acc.map
      entry == [ts |-> IF r.updated_at_ts > 0 THEN r.updated_at_ts ELSE nowTs, s |-> r.updated_at]
      put == [i \in DOMAIN acc.map \cup {r.id} |-> IF i = r.id THEN entry ELSE acc.map[i]]
  IN IF ~has
     THEN [totals |-> [acc.totals EXCEPT !.inserts = @ + 1],
           map |-> IF r.id # NoId THEN put ELSE acc.map]
     ELSE IF r.has_version /\ ( (r.updated_at_ts > 0 /\ r.updated_at_ts >= acc.map[r.id].ts)
                              \/ (r.updated_at_ts = 0 /\ ~StrLess(r.updated_at, acc.map[r.id].s)) )
     THEN [totals |-> [acc.totals EXCEPT !.updates = @ + 1], map |-> put]
     ELSE [totals |-> [acc.totals EXCEPT !.skips = @ + 1, !.skipped_newer_or_equal = @ + 1],
           map |-> acc.map]

\* the "Stats" branch of the apply loop for one record: the totals and the
\* existingMap after it
ApplyStat(acc, r, nowTs) ==
  LET has == r.id # NoId /\ r.id \in DOMAIN acc.map
      prevTs == IF has THEN acc.map[r.id].ts ELSE 0
      prevStr == IF has THEN acc.map[r.id].s ELSE <<>>
      incomingTs == r.updated_at_ts
      entry == [ts |-> IF incomingTs > 0 THEN incomingTs ELSE nowTs, s |-> r.updated_at]
      put == [i \in DOMAIN acc.map \cup {r.id} |-> IF i = r.id THEN entry ELSE acc.map[i]]
  IN IF ~has
     THEN [totals |-> [acc.totals EXCEPT !.inserts = @ + 1],
           map |-> IF r.id # NoId THEN put ELSE acc.map]
     ELSE IF r.has_version /\ ( (incomingTs > 0 /\ incomingTs > prevTs)
                              \/ (incomingTs = 0 /\ StrLess(prevStr, r.updated_at)) )
     THEN [totals |-> [acc.totals EXCEPT !.updates = @ + 1], map |-> put]
     ELSE [totals |-> [acc.totals EXCEPT !.skips = @ + 1, !.skipped_newer_or_equal = @ + 1],
           map |-> acc.map]

RECURSIVE ApplyStats(_, _, _)
ApplyStats(acc, chunk, nowTs) ==
  IF chunk = <<>> THEN acc
  ELSE IF Len(chunk) = 1 THEN ApplyStat(acc, chunk[1], nowTs)
  ELSE LET mid == ApplyStats(acc, FirstHalf(chunk), nowTs)
       IN IF Computed(mid) THEN ApplyStats(mid, SecondHalf(chunk), nowTs) ELSE mid

\* incoming.slice(i, i + BATCH), i counted from 0
Chunk(incoming, i) ==
  SubSeq(incoming, i + 1, IF i + BATCH < Len(incoming) THEN i + BATCH ELSE Len(incoming))

\* -------------------------------------------------------- import preview
\* normalizeRecord of import preview
previewNormalizeRecord(r, forcedDeleted) ==
  LET updatedAt == Trim(StringOrEmpty(r.updated_at))
  IN [id |-> r.id,
      date |-> Trim(StringOrEmpty(r.date)),
      issue |-> Trim(StringOrEmpty(r.issue)),
      updated_at |-> updatedAt,
      updated_at_ts |-> IF r.updated_at_ts > 0 THEN r.updated_at_ts
                        ELSE ParseUpdatedAtToTs(updatedAt),
      is_deleted |-> forcedDeleted,
      deleted_at |-> IF forcedDeleted = 1 THEN Trim(StringOrEmpty(r.deleted_at)) ELSE <<>>]

previewNormalizeAll(payload) ==
  [k \in 1..Len(payload.active) |-> previewNormalizeRecord(payload.active[k], 0)]
  \o [k \in 1..Len(payload.trash) |-> previewNormalizeRecord(payload.trash[k], 1)]

\* fetchExistingMap (preview)
fetchExistingMap(st, ids) ==
  [i \in ids \cap DOMAIN st |->
     [ts |-> NumberOrZero(st[i].updated_at_ts),
      s |-> Trim(StringOrEmpty(st[i].updated_at))]]

\* one turn of the preview loop.  existingMap.get(r.id) of an id without a
\* row is undefined; the code then takes existingTs = 0 and
\* existingUpdatedAt = "", so its "=== undefined" test never succeeds.
PreviewStat(totals, r, existingMap) ==
  LET has == r.id \in DOMAIN existingMap
      existingTs == IF has THEN existingMap[r.id].ts ELSE 0
      existingUpdatedAt == IF has THEN existingMap[r.id].s ELSE <<>>
      incomingTs == r.updated_at_ts
      hasIncomingVersion == incomingTs > 0 \/ r.updated_at # <<>>
  IN IF r.id = NoId
     THEN [totals EXCEPT !.inserts = @ + 1]
     ELSE IF ~hasIncomingVersion
     THEN [totals EXCEPT !.skips = @ + 1, !.skipped_newer_or_equal = @ + 1]
     ELSE IF \/ (incomingTs > 0 /\ existingTs >= 0 /\ incomingTs > existingTs)
             \/ (incomingTs = 0 /\ StrLess(existingUpdatedAt, r.updated_at))
     THEN [totals EXCEPT !.updates = @ + 1]
     ELSE [totals EXCEPT !.skips = @ + 1, !.skipped_newer_or_equal = @ + 1]

RECURSIVE PreviewStats(_, _, _)
PreviewStats(totals, incoming, existingMap) ==
  IF incoming = <<>> THEN totals
  ELSE IF Len(incoming) = 1 THEN PreviewStat(totals, incoming[1], existingMap)
  ELSE LET mid == PreviewStats(totals, FirstHalf(incoming), existingMap)
       IN IF Computed(mid) THEN PreviewStats(mid, SecondHalf(incoming), existingMap) ELSE mid

\* the totals a preview of payload reports on table st (after its own
\* ensureSoftDeleteColumns has run on st)
PreviewTotals(st, payload) ==
  LET incoming == previewNormalizeAll(payload)
  IN PreviewStats(ZeroTotals, incoming, fetchExistingMap(st, IncomingIds(incoming)))

\* ------------------------------------------------- replace-all import (PUT)
\* one record of "all": the record and the partition flag __is_deleted
ReplaceAll(payload) ==
  [k \in 1..Len(payload.active) |-> [r |-> payload.active[k], part |-> 0]]
  \o [k \in 1..Len(payload.trash) |-> [r |-> payload.trash[k], part |-> 1]]

\* the row insertNew binds for one record
\*  (is_deleted: the record's own flag before the partition's; a flag the
\*   record does not carry is written NoFlag)
ReplaceRowNew(x, nowTs) ==
  LET r == x.r
      isDeleted == IF r.is_deleted_flag # NoFlag THEN r.is_deleted_flag ELSE x.part
      updatedAt == r.updated_at
      s == Trim(StringOrEmpty(updatedAt))
      updatedAtTs == IF r.updated_at_ts > 0 THEN r.updated_at_ts
                     ELSE IF ClockSeconds(s) # NullTs THEN ClockSeconds(s) * MsPerSec
                     ELSE nowTs
  IN [date |-> Trim(StringOrEmpty(r.date)), issue |-> Trim(StringOrEmpty(r.issue)),
      department |-> r.department, name |-> r.name, solution |-> r.solution,
      remarks |-> r.remarks, type |-> r.type,
      is_deleted |-> isDeleted, deleted_at |-> r.deleted_at,
      updated_at |-> updatedAt, updated_at_ts |-> updatedAtTs]

\* the row insertOld leaves: the content columns, the others at their
\* schema defaults (updated_at datetime('now'), updated_at_ts 0, is_deleted 0)
ReplaceRowOld(x, dbNow) ==
  LET r == x.r
  IN [date |-> Trim(StringOrEmpty(r.date)), issue |-> Trim(StringOrEmpty(r.issue)),
      department |-> r.department, name |-> r.name, solution |-> r.solution,
      remarks |-> r.remarks, type |-> r.type,
      is_deleted |-> 0, deleted_at |-> NULL,
      updated_at |-> CurrentTimestamp(dbNow), updated_at_ts |-> 0]

\* a plain INSERT of row under id (NoId: the next rowid); ok is FALSE when the
\* id is taken (UNIQUE constraint failed)
InsertRow(db, id, row) ==
  IF id = NoId
  THEN LET n == NextRowId(db.st, db.sq)
       IN [st |-> WithRow(db.st, n, row), sq |-> n, ok |-> db.ok]
  ELSE IF id \in DOMAIN db.st
  THEN [db EXCEPT !.ok = FALSE]
  ELSE [st |-> WithRow(db.st, id, row), sq |-> MaxOf({db.sq, id}), ok |-> db.ok]

\* env.DB.batch of insertNew statements
RECURSIVE ReplaceBatchNew(_, _, _)
ReplaceBatchNew(db, chunk, nowTs) ==
  IF chunk = <<>> THEN db
  ELSE IF Len(chunk) = 1 THEN InsertRow(db, chunk[1].r.id, ReplaceRowNew(chunk[1], nowTs))
  ELSE LET mid == ReplaceBatchNew(db, FirstHalf(chunk), nowTs)
       IN IF Computed(mid) THEN ReplaceBatchNew(mid, SecondHalf(chunk), nowTs) ELSE mid

\* env.DB.batch of insertOld statements
RECURSIVE ReplaceBatchOld(_, _, _)
ReplaceBatchOld(db, chunk, dbNow) ==
  IF chunk = <<>> THEN db
  ELSE IF Len(chunk) = 1 THEN InsertRow(db, chunk[1].r.id, ReplaceRowOld(chunk[1], dbNow))
  ELSE LET mid == ReplaceBatchOld(db, FirstHalf(chunk), dbNow)
       IN IF Computed(mid) THEN ReplaceBatchOld(mid, SecondHalf(chunk), dbNow) ELSE mid

\* ------------------------------------------------------------- the system
VARIABLES
  store,   \* the tickets table: id -> row
  seq,     \* sqlite_sequence of tickets: the largest rowid ever held
  now,     \* the wall clock, in milliseconds
  pc,      \* where each handler invocation stands (idle, an await, done)
  req,     \* the locals of each handler invocation
  resp,    \* the response each finished invocation returned
  started, \* how many requests the clients have sent so far
  purged   \* history: the ids whose row a hard delete has removed

vars == <<store, seq, now, pc, req, resp, started, purged>>

\* Handler invocations that may be in flight at the same time.
Procs == {1, 2}

Ids == 1..MaxId

\* "2025-01-01", "2025-01-02"; "jam", "fix"
Date1 == <<50, 48, 50, 53, 45, 48, 49, 45, 48, 49>>
Date2 == <<50, 48, 50, 53, 45, 48, 49, 45, 48, 50>>
IssueJam == <<106, 97, 109>>
IssueFix == <<102, 105, 120>>

\* JSON bodies a client sends to create or update
BodyA == [date |-> Date1, issue |-> IssueJam, department |-> "it", name |-> "ann",
          solution |-> "", remarks |-> "", type |-> "hw"]
BodyB == [date |-> Date2, issue |-> IssueFix, department |-> "hr", name |-> "bob",
          solution |-> "reboot", remarks |-> "urgent", type |-> "sw"]
BodyBlank == [date |-> <<32>>, issue |-> IssueJam, department |-> "it", name |-> "ann",
              solution |-> "", remarks |-> "", type |-> "hw"]
\* a ticket whose date is written with a character outside Latin-1 (U+5E74)
DateWide == <<50, 48, 50, 53, 24180>>
BodyWide == [date |-> DateWide, issue |-> IssueJam, department |-> "it", name |-> "ann",
             solution |-> "", remarks |-> "", type |-> "hw"]
\* what clients post, and what they put
CreateBodies == {BodyA, BodyBlank}
UpdateBodies == {BodyB, BodyBlank}

NoReq == [kind |-> "none"]
NoResp == [status |-> 0]

Idle(p) == pc[p] = "idle"

\* a client sends one more request
Begin == started < MaxRequests /\ started' = started + 1 /\ UNCHANGED purged

\* a request already sent goes on
Continue == UNCHANGED <<started, purged>>

\* the handler of p moves to pc value at with locals r
Goto(p, at, r) ==
  /\ pc' = [pc EXCEPT ![p] = at]
  /\ req' = [req EXCEPT ![p] = r]

\* the handler of p returns response rs
Reply(p, rs) ==
  /\ pc' = [pc EXCEPT ![p] = "done"]
  /\ resp' = [resp EXCEPT ![p] = rs]

\* the response has been delivered; p is free for the next request
Return(p) ==
  /\ Continue
  /\ pc[p] = "done"
  /\ pc' = [pc EXCEPT ![p] = "idle"]
  /\ req' = [req EXCEPT ![p] = NoReq]
  /\ resp' = [resp EXCEPT ![p] = NoResp]
  /\ UNCHANGED <<store, seq, now>>

\* the wall clock advances
Tick ==
  /\ Continue
  /\ now + TickMs <= MaxNow
  /\ now' = now + TickMs
  /\ UNCHANGED <<store, seq, pc, req, resp>>

\* ------------------------------------------------ POST /api/tickets (create)
CreateStart(p, body) ==
  /\ Begin
  /\ Idle(p)
  /\ NextRowId(store, seq) <= MaxId
  /\ LET date == Trim(body.date)
         issue == Trim(body.issue)
     IN IF date = <<>> \/ issue = <<>>
        THEN /\ Reply(p, [status |-> 400, ok |-> FALSE, error |-> "date & issue required"])
             /\ req' = [req EXCEPT ![p] = [kind |-> "create"]]
        ELSE /\ Goto(p, "create_insert",
                     [kind |-> "create", nowTs |-> now,
                      body |-> [body EXCEPT !.date = date, !.issue = issue]])
             /\ UNCHANGED resp
  /\ UNCHANGED <<store, seq, now>>

\* ALTER TABLE ... ADD COLUMN updated_at_ts fails (the column exists) and is
\* ignored; then the INSERT
CreateInsertStep(p) ==
  /\ Continue
  /\ pc[p] = "create_insert"
  /\ LET r == CreateInsert(store, seq, req[p].body, req[p].nowTs, now)
     IN /\ store' = r.st
        /\ seq' = r.last_row_id
        /\ Goto(p, "create_backfill", [req[p] EXCEPT !.kind = "create"] @@ [id |-> r.last_row_id])
  /\ UNCHANGED <<now, resp>>

CreateBackfillStep(p) ==
  /\ Continue
  /\ pc[p] = "create_backfill"
  /\ store' = CreateBackfill(store, req[p].id, req[p].nowTs)
  /\ Reply(p, [status |-> 201, ok |-> TRUE, id |-> req[p].id, updated_at_ts |-> req[p].nowTs])
  /\ UNCHANGED <<seq, now, req>>

\* --------------------------------------------- PUT /api/tickets/:id (update)
\* The client sends the version fields of the row as it last saw it (here: as
\* stored when the request is sent): updated_at_ts, updated_at, both or none.
ClientTs(id, sendTs) ==
  IF sendTs /\ id \in DOMAIN store /\ store[id].updated_at_ts # NullTs
  THEN store[id].updated_at_ts ELSE 0

ClientStr(id, sendStr) ==
  IF sendStr /\ id \in DOMAIN store THEN Trim(StringOrEmpty(store[id].updated_at)) ELSE <<>>

\* the token the conditional UPDATE compares: the number when the client sent
\* a positive one, else the string
EffectiveToken(r) ==
  IF r.hasClientTs THEN <<"ts", r.clientUpdatedAtTs>> ELSE <<"str", r.clientUpdatedAt>>

\* the same token as the stored row carries it
StoredToken(r, row) ==
  IF r.hasClientTs THEN <<"ts", row.updated_at_ts>> ELSE <<"str", row.updated_at>>

PutStart(p, id, body, force, sendTs, sendStr) ==
  /\ Begin
  /\ Idle(p)
  /\ LET date == Trim(body.date)
         issue == Trim(body.issue)
         clientUpdatedAtTs == ClientTs(id, sendTs)
     IN IF date = <<>> \/ issue = <<>>
        THEN /\ Reply(p, [status |-> 400, ok |-> FALSE, error |-> "date & issue required"])
             /\ req' = [req EXCEPT ![p] = [kind |-> "put", id |-> id, force |-> force, lostTo |-> 0, beat |-> 0]]
        ELSE /\ Goto(p, "put_read",
                     [kind |-> "put", id |-> id, force |-> force,
                      body |-> [body EXCEPT !.date = date, !.issue = issue],
                      clientUpdatedAtTs |-> clientUpdatedAtTs,
                      hasClientTs |-> clientUpdatedAtTs > 0,
                      clientUpdatedAt |-> ClientStr(id, sendStr),
                      lostTo |-> 0, beat |-> 0])
             /\ UNCHANGED resp
  /\ UNCHANGED <<store, seq, now>>

\* current = await getTicket(env, id), the checks after it, nowTs = Date.now()
PutRead(p) ==
  /\ Continue
  /\ pc[p] = "put_read"
  /\ LET r == req[p]
     IN IF r.id \notin DOMAIN store
        THEN Reply(p, [status |-> 404, ok |-> FALSE, error |-> "not_found"]) /\ UNCHANGED req
        ELSE IF isDeletedRow(store[r.id])
        THEN Reply(p, [status |-> 410, ok |-> FALSE, error |-> "deleted"]) /\ UNCHANGED req
        ELSE IF ~r.force /\ ~r.hasClientTs /\ r.clientUpdatedAt = <<>>
        THEN Reply(p, [status |-> 400, ok |-> FALSE, error |-> "missing_version"]) /\ UNCHANGED req
        ELSE /\ Goto(p, "put_write", r @@ [current |-> store[r.id], nowTs |-> now])
             /\ UNCHANGED resp
  /\ UNCHANGED <<store, seq, now>>

\* the conditional UPDATE the handler chose
PutStmt(st, r, dbNow) ==
  IF r.force THEN UpdateForce(st, r.id, r.body, r.nowTs, dbNow)
  ELSE IF r.hasClientTs THEN UpdateIfTs(st, r.id, r.body, r.nowTs, dbNow, r.clientUpdatedAtTs)
  ELSE UpdateIfStr(st, r.id, r.body, r.nowTs, dbNow, r.clientUpdatedAt)

\* q is another non-forced update of the same id, not yet written, that
\* carries the token p carries
RacesWith(p, q) ==
  /\ q # p
  /\ pc[q] \in {"put_read", "put_write"}
  /\ req[q].id = req[p].id
  /\ ~req[q].force /\ ~req[p].force
  /\ req[q].lostTo = 0
  /\ EffectiveToken(req[q]) = EffectiveToken(req[p])

\* r = await stmt.run(); changes = r.meta.changes
PutWrite(p) ==
  /\ Continue
  /\ pc[p] = "put_write"
  /\ LET r == req[p]
         w == PutStmt(store, r, now)
         won == {q \in Procs : w.changes = 1 /\ RacesWith(p, q)}
     IN /\ store' = w.st
        /\ pc' = [pc EXCEPT ![p] = "put_reply"]
        /\ req' = [q \in Procs |->
                     IF q = p
                     THEN [r EXCEPT !.beat = IF won = {} THEN r.beat ELSE CHOOSE q2 \in won : TRUE]
                          @@ [changes |-> w.changes,
                              \* history: the UPDATE met the ticket Deleted
                              metDeleted |-> r.id \in DOMAIN store /\ isDeletedRow(store[r.id])]
                     ELSE IF q \in won THEN [req[q] EXCEPT !.lostTo = p]
                     ELSE req[q]]
  /\ UNCHANGED <<seq, now, resp>>

\* the UPDATE the catch block chooses
PutStmtOld(st, r, dbNow) ==
  IF r.force THEN UpdateForceOld(st, r.id, r.body, r.nowTs, dbNow)
  ELSE IF r.hasClientTs THEN UpdateIfTsOld(st, r.id, r.body, r.nowTs, dbNow, r.clientUpdatedAtTs)
  ELSE UpdateIfStrOld(st, r.id, r.body, dbNow, r.clientUpdatedAt)

\* await stmt.run() throws without writing (a failing store call); the catch
\* block runs its own UPDATE, which succeeds
PutWriteThrows(p) ==
  /\ Continue
  /\ pc[p] = "put_write"
  /\ LET r == req[p]
         w == PutStmtOld(store, r, now)
     IN /\ store' = w.st
        /\ Goto(p, "put_reply",
                r @@ [changes |-> w.changes,
                      metDeleted |-> r.id \in DOMAIN store /\ isDeletedRow(store[r.id])])
  /\ UNCHANGED <<seq, now, resp>>

\* latest = await getTicket(env, id) and the response built from it
PutReply(p) ==
  /\ Continue
  /\ pc[p] = "put_reply"
  /\ LET r == req[p]
         latest == IF r.id \in DOMAIN store THEN store[r.id] ELSE r.current
     IN IF r.changes = 0 /\ ~r.force
        THEN Reply(p, [status |-> 409, ok |-> FALSE, error |-> "conflict",
                       current |-> latest,
                       client_updated_at |-> r.clientUpdatedAt,
                       client_updated_at_ts |-> IF r.hasClientTs THEN r.clientUpdatedAtTs ELSE NullTs,
                       server_updated_at |-> StringOrEmpty(latest.updated_at),
                       server_updated_at_ts |-> NumberOrZero(latest.updated_at_ts)])
        ELSE Reply(p, [status |-> 200, ok |-> TRUE,
                       updated_at |-> IF r.id \in DOMAIN store
                                      THEN StringOrEmpty(store[r.id].updated_at) ELSE <<>>,
                       updated_at_ts |-> IF r.id \in DOMAIN store /\ NumberOrZero(store[r.id].updated_at_ts) # 0
                                         THEN store[r.id].updated_at_ts ELSE r.nowTs])
  /\ UNCHANGED <<store, seq, now, req>>

\* --------------------------------------- DELETE /api/tickets/:id (soft delete)
\* History kept for the analysis: the stored row of id when a soft delete or
\* a restore is sent (these requests carry no version token), <<>> without one.
SeenRow(id) == IF id \in DOMAIN store THEN <<store[id]>> ELSE <<>>

DeleteStart(p, id) ==
  /\ Begin
  /\ Idle(p)
  /\ Goto(p, "delete_write", [kind |-> "delete", id |-> id, nowTs |-> now,
                              seen |-> SeenRow(id)])
  /\ UNCHANGED <<store, seq, now, resp>>

DeleteWrite(p) ==
  /\ Continue
  /\ pc[p] = "delete_write"
  /\ LET r == req[p]
         w == SoftDeleteStmt(store, r.id, r.nowTs, now)
     IN /\ store' = w.st
        /\ IF w.changes = 0
           THEN Goto(p, "delete_check",
                     \* history: the UPDATE met the ticket Deleted
                     r @@ [metDeleted |-> r.id \in DOMAIN store /\ isDeletedRow(store[r.id])])
                /\ UNCHANGED resp
           ELSE Reply(p, [status |-> 200, ok |-> TRUE, soft |-> TRUE, already |-> FALSE]) /\ UNCHANGED req
  /\ UNCHANGED <<seq, now>>

\* (variant for sensitivity checks: changes = 0 is taken to mean "already
\* deleted" without looking the ticket up)
DeleteCheckAssumesDeleted(p) ==
  /\ Continue
  /\ pc[p] = "delete_check"
  /\ Reply(p, [status |-> 200, ok |-> TRUE, soft |-> TRUE, already |-> TRUE])
  /\ UNCHANGED <<store, seq, now, req>>

\* t = await getTicket(env, id) when nothing was changed
DeleteCheck(p) ==
  /\ Continue
  /\ pc[p] = "delete_check"
  /\ LET r == req[p]
     IN IF r.id \notin DOMAIN store
        THEN Reply(p, [status |-> 404, ok |-> FALSE, error |-> "not_found"])
        ELSE IF isDeletedRow(store[r.id])
        THEN Reply(p, [status |-> 200, ok |-> TRUE, soft |-> TRUE, already |-> TRUE])
        ELSE Reply(p, [status |-> 500, ok |-> FALSE, error |-> "delete_failed"])
  /\ UNCHANGED <<store, seq, now, req>>

\* A soft delete during which a store call throws: the UPDATE and its retry
\* without updated_at_ts, or getTicket after an UPDATE that changed nothing
\* (the row is read or written by nobody else meanwhile).  The outer catch
\* runs DELETE FROM tickets WHERE id=? and answers { ok: true, soft: false }.
DeleteThrows(p, id) ==
  /\ Begin
  /\ Idle(p)
  /\ store' = HardDeleteStmt(store, id).st
  /\ Reply(p, [status |-> 200, ok |-> TRUE, soft |-> FALSE, already |-> FALSE])
  /\ req' = [req EXCEPT ![p] = [kind |-> "delete", id |-> id, nowTs |-> now,
                                seen |-> SeenRow(id), threw |-> TRUE]]
  /\ UNCHANGED <<seq, now>>

\* ------------------------------------------- PUT /api/tickets/:id/restore
RestoreStart(p, id) ==
  /\ Begin
  /\ Idle(p)
  /\ Goto(p, "restore_write", [kind |-> "restore", id |-> id, nowTs |-> now,
                               seen |-> SeenRow(id)])
  /\ UNCHANGED <<store, seq, now, resp>>

RestoreWrite(p) ==
  /\ Continue
  /\ pc[p] = "restore_write"
  /\ LET r == req[p]
         w == RestoreStmt(store, r.id, r.nowTs, now)
     IN /\ store' = w.st
        /\ IF w.changes = 0
           THEN Goto(p, "restore_check", r) /\ UNCHANGED resp
           ELSE Reply(p, [status |-> 200, ok |-> TRUE, already |-> FALSE]) /\ UNCHANGED req
  /\ UNCHANGED <<seq, now>>

RestoreCheck(p) ==
  /\ Continue
  /\ pc[p] = "restore_check"
  /\ LET r == req[p]
     IN IF r.id \notin DOMAIN store
        THEN Reply(p, [status |-> 404, ok |-> FALSE, error |-> "not_found"])
        ELSE Reply(p, [status |-> 200, ok |-> TRUE, already |-> TRUE])
  /\ UNCHANGED <<store, seq, now, req>>

\* --------------------------------------- DELETE /api/tickets/:id/hard
HardDelete(p, id) ==
  /\ started < MaxRequests /\ started' = started + 1
  /\ Idle(p)
  /\ LET w == HardDeleteStmt(store, id)
     IN /\ store' = w.st
        /\ purged' = IF w.changes = 1 THEN purged \cup {id} ELSE purged
        /\ IF w.changes = 0
           THEN Reply(p, [status |-> 404, ok |-> FALSE, error |-> "not_found"])
           ELSE Reply(p, [status |-> 200, ok |-> TRUE])
  /\ req' = [req EXCEPT ![p] = [kind |-> "hard", id |-> id]]
  /\ UNCHANGED <<seq, now>>

\* ------------------------------------------------- import payloads (JSON)
\* one record of an export file
Rec(id, body, updated_at, updated_at_ts, flag, deleted_at) ==
  [id |-> id, date |-> body.date, issue |-> body.issue, department |-> body.department,
   name |-> body.name, solution |-> body.solution, remarks |-> body.remarks,
   type |-> body.type, updated_at |-> updated_at, updated_at_ts |-> updated_at_ts,
   is_deleted_flag |-> flag, deleted_at |-> deleted_at]

\* "zz": a version string no date parser accepts
TextZz == <<122, 122>>

RecNum == Rec(1, BodyB, NULL, ExportTs, NoFlag, NULL)        \* numeric version
RecNoVer == Rec(1, BodyB, NULL, 0, NoFlag, NULL)             \* no version at all
RecNoId == Rec(NoId, BodyB, NULL, ExportTs, NoFlag, NULL)    \* no id
RecZz == Rec(2, BodyA, TextZz, 0, NoFlag, NULL)              \* string-only version
RecSql == Rec(2, BodyA, CurrentTimestamp(StartNow), 0, 0, NULL)
RecTrash == Rec(2, BodyB, NULL, ExportTs, NoFlag, NULL)      \* in trash, no deleted_at
RecBlank == Rec(1, BodyBlank, NULL, ExportTs, NoFlag, NULL)  \* blank date
RecNoIssue == Rec(2, [BodyB EXCEPT !.issue = <<>>], NULL, ExportTs, NoFlag, NULL)

\* a payload {active: [...], trash: [...]}
Payload(active, trash) == [active |-> active, trash |-> trash, flat |-> FALSE]

\* a payload that is a flat array of records: parsePayload takes the array as
\* the active part and leaves the trash part empty
FlatPayload(records) == [active |-> records, trash |-> <<>>, flat |-> TRUE]

\* a record of a flat array that says it is deleted
RecFlagged == Rec(2, BodyA, NULL, ExportTs, 1, CurrentTimestamp(StartNow))

\* the rowids the records of payload without an id would take stay within Ids
FitsIds(payload) ==
  LET all == payload.active \o payload.trash
  IN NextRowId(store, seq) + Cardinality({k \in 1..Len(all) : all[k].id = NoId}) <= MaxId + 1

\* an export of more records than one batch takes: a record without id, the
\* version-less record up to the end of the first batch, and one more record
PayloadBig ==
  Payload([k \in 1..(BATCH + 1) |->
             IF k = 1 THEN RecNoId ELSE IF k <= BATCH THEN RecNoVer ELSE RecSql], <<>>)

Payloads ==
  { Payload(<<RecNum>>, <<>>),
    Payload(<<RecNoVer>>, <<>>),
    Payload(<<RecNoId>>, <<>>),
    Payload(<<RecZz>>, <<>>),
    Payload(<<RecSql>>, <<>>),
    Payload(<<RecNum, RecNum>>, <<>>),
    Payload(<<RecNum>>, <<RecTrash>>),
    Payload(<<RecBlank>>, <<>>),
    Payload(<<RecBlank, RecSql>>, <<>>),
    Payload(<<RecSql, RecBlank>>, <<>>),
    Payload(<<RecNum>>, <<RecNoIssue>>),
    FlatPayload(<<RecFlagged>>) }

\* records of id 1 with other content than RecNum and RecNoVer: a newer
\* version, and the version of RecNum
RecNewer == Rec(1, BodyA, NULL, ExportTs + 1, NoFlag, NULL)
RecTwin == Rec(1, BodyA, NULL, ExportTs, NoFlag, NULL)

\* exports that carry two records of the same id, in either order
PairPayloads ==
  { Payload(<<RecNum, RecNewer>>, <<>>), Payload(<<RecNewer, RecNum>>, <<>>),
    Payload(<<RecNoVer, RecNewer>>, <<>>), Payload(<<RecNewer, RecNoVer>>, <<>>),
    Payload(<<RecNum, RecTwin>>, <<>>), Payload(<<RecTwin, RecNum>>, <<>>) }

\* --------------------------------------------- POST /api/import (merge apply)
\* The statements and the stats of the chunk at offset i, built without an
\* await in between: one Date.now() reading serves every record of the chunk.
ApplyBuild(r, i, totals, map) ==
  LET acc == ApplyStats([totals |-> totals, map |-> map], Chunk(r.incoming, i), now)
  IN [i |-> i, nowTs |-> now, totals |-> acc.totals, map |-> acc.map] @@ r

\* an apply may follow a preview or an apply of the same payload by the same
\* client; it then remembers what that one reported (previous) and the table
\* it left (before).  When it follows an apply that failed in a batch it is a
\* retry: it remembers the database the first attempt started from (start)
\* and how many records the failed attempts had committed (applied).
ApplyStart(p, payload) ==
  /\ Begin
  /\ \/ Idle(p)
     \/ /\ pc[p] = "done" /\ req[p].kind \in {"preview", "apply"}
        /\ resp[p].status = 200 /\ req[p].payload = payload
     \/ /\ pc[p] = "done" /\ req[p].kind = "apply"
        /\ resp[p].status = 500 /\ req[p].payload = payload
  /\ FitsIds(payload)
  /\ LET incoming == normalizeAll(payload)
         retry == ~Idle(p) /\ resp[p].status = 500
         r == [kind |-> "apply", payload |-> payload, incoming |-> incoming,
               after |-> IF Idle(p) THEN "none" ELSE IF retry THEN "failed" ELSE req[p].kind,
               previous |-> IF Idle(p) \/ retry THEN ZeroTotals ELSE resp[p].totals,
               before |-> IF Idle(p) THEN EmptyStore ELSE store,
               start |-> IF retry THEN req[p].start ELSE [st |-> store, sq |-> seq],
               applied |-> IF retry THEN MaxOf({req[p].applied, req[p].i}) ELSE 0]
     IN IF HasBadRecord(incoming)
        THEN /\ Reply(p, [status |-> 400, ok |-> FALSE,
                          error |-> "date & issue required for all records"])
             /\ req' = [req EXCEPT ![p] = r]
        ELSE /\ Goto(p, "apply_ensure", r)
             /\ resp' = [resp EXCEPT ![p] = NoResp]
  /\ UNCHANGED <<store, seq, now>>

\* await ensureSoftDeleteColumns(env)
ApplyEnsure(p) ==
  /\ Continue
  /\ pc[p] = "apply_ensure"
  /\ store' = ensureSoftDeleteColumns(store)
  /\ pc' = [pc EXCEPT ![p] = "apply_fetch"]
  /\ UNCHANGED <<seq, now, req, resp>>

ApplyReply(p, totals) ==
  Reply(p, [status |-> 200, ok |-> TRUE, totals |-> totals])

\* existingMap = await fetchExistingUpdatedMap(env, ids), then the first chunk
ApplyFetch(p) ==
  /\ Continue
  /\ pc[p] = "apply_fetch"
  /\ LET r == req[p]
         existingMap == fetchExistingUpdatedMap(store, IncomingIds(r.incoming))
     IN IF Len(r.incoming) = 0
        THEN ApplyReply(p, ZeroTotals) /\ UNCHANGED req
        ELSE Goto(p, "apply_batch",
                  ApplyBuild(r @@ [snapshot |-> existingMap, declined |-> {}],
                             0, ZeroTotals, existingMap)) /\ UNCHANGED resp
  /\ UNCHANGED <<store, seq, now>>

\* History kept for the analysis, not by the program: the ids of the chunk
\* at r.i whose row the snapshot called older than an incoming record and
\* whose row the batch (table st before, after after) nevertheless left alone.
Declined(r, st, after) ==
  LET chunk == Chunk(r.incoming, r.i)
  IN {id \in DOMAIN st \cap DOMAIN r.snapshot :
        /\ after[id] = st[id]
        /\ \E k \in 1..Len(chunk) :
             /\ chunk[k].id = id /\ chunk[k].has_version
             /\ chunk[k].updated_at_ts > r.snapshot[id].ts}

\* (variant for sensitivity checks: the rebuild runs after every import)
NeedsRebuildAlways(totals) == TRUE

\* if (inserts + updates > 0)
NeedsRebuild(totals) == totals.inserts + totals.updates > 0

\* await env.DB.batch(stmts), then the next chunk or the end of the loop
ApplyBatchStep(p) ==
  /\ Continue
  /\ pc[p] = "apply_batch"
  /\ LET r == req[p]
         db == ApplyBatch([st |-> store, sq |-> seq], Chunk(r.incoming, r.i), r.nowTs, now)
         j == r.i + BATCH
         done == [r EXCEPT !.declined = @ \cup Declined(r, store, db.st)]
     IN /\ store' = db.st
        /\ seq' = db.sq
        /\ IF j < Len(r.incoming)
           THEN Goto(p, "apply_batch", ApplyBuild(done, j, r.totals, r.map)) /\ UNCHANGED resp
           ELSE IF NeedsRebuild(r.totals)
           THEN Goto(p, "apply_fts", done) /\ UNCHANGED resp
           ELSE ApplyReply(p, r.totals) /\ req' = [req EXCEPT ![p] = done]
  /\ UNCHANGED now

\* await env.DB.batch(stmts) throws: the catch block answers 500
ApplyBatchFail(p) ==
  /\ Continue
  /\ pc[p] = "apply_batch"
  /\ LET r == req[p]
         db == BatchFailure([st |-> store, sq |-> seq], Chunk(r.incoming, r.i), r.nowTs, now)
     IN /\ store' = db.st
        /\ seq' = db.sq
  /\ Reply(p, [status |-> 500, ok |-> FALSE, error |-> "import apply failed"])
  /\ UNCHANGED <<now, req>>

\* rr = await tryRebuildFTS(env): the search index is rebuilt from the table
ApplyFts(p) ==
  /\ Continue
  /\ pc[p] = "apply_fts"
  /\ Reply(p, [status |-> 200, ok |-> TRUE, totals |-> req[p].totals,
               fts_rebuild |-> [ok |-> TRUE]])
  /\ UNCHANGED <<store, seq, now, req>>

\* what tryRebuildFTS returns when its INSERT throws: the table tickets_fts
\* (or the fts5 module) is missing, or any other error
FtsFailures ==
  { [ok |-> FALSE, skipped |-> TRUE],
    [ok |-> FALSE, error |-> "rebuild failed"] }

\* rr = await tryRebuildFTS(env) when the rebuild fails
ApplyFtsFail(p) ==
  /\ Continue
  /\ pc[p] = "apply_fts"
  /\ \E rr \in FtsFailures :
       Reply(p, [status |-> 200, ok |-> TRUE, totals |-> req[p].totals, fts_rebuild |-> rr])
  /\ UNCHANGED <<store, seq, now, req>>

\* ---------------------------------------- POST /api/import/preview
PreviewStart(p, payload) ==
  /\ Begin
  /\ Idle(p)
  /\ Goto(p, "preview_ensure", [kind |-> "preview", payload |-> payload])
  /\ UNCHANGED <<store, seq, now, resp>>

\* await ensureSoftDeleteColumns(env)
PreviewEnsure(p) ==
  /\ Continue
  /\ pc[p] = "preview_ensure"
  /\ store' = ensureSoftDeleteColumns(store)
  /\ pc' = [pc EXCEPT ![p] = "preview_fetch"]
  /\ UNCHANGED <<seq, now, req, resp>>

\* existingMap = await fetchExistingMap(env, ids), the loop and the response
PreviewFetch(p) ==
  /\ Continue
  /\ pc[p] = "preview_fetch"
  /\ Reply(p, [status |-> 200, ok |-> TRUE, totals |-> PreviewTotals(store, req[p].payload)])
  /\ UNCHANGED <<store, seq, now, req>>

\* ------------------------------------------ PUT /api/import (replace all)
\* all.slice(i, i + BATCH), i counted from 0
ReplaceChunk(all, i) ==
  SubSeq(all, i + 1, IF i + ReplaceBATCH < Len(all) THEN i + ReplaceBATCH ELSE Len(all))

ReplaceStart(p, payload) ==
  /\ Begin
  /\ Idle(p)
  /\ FitsIds(payload)
  /\ Goto(p, "replace_clear", [kind |-> "replace", all |-> ReplaceAll(payload), i |-> 0])
  /\ UNCHANGED <<store, seq, now, resp>>

ReplaceReply(p, mode) ==
  Reply(p, [status |-> 200, ok |-> TRUE, mode |-> mode])

\* await env.DB.prepare("DELETE FROM tickets").run(); the statements of the
\* first chunk are then built (Date.now() is read while they are)
ReplaceClear(p) ==
  /\ Continue
  /\ pc[p] = "replace_clear"
  /\ store' = EmptyStore
  /\ LET r == req[p]
     IN IF Len(r.all) = 0
        THEN ReplaceReply(p, "new_schema") /\ UNCHANGED req
        ELSE Goto(p, "replace_insert", r @@ [nowTs |-> now, mode |-> "new_schema"]) /\ UNCHANGED resp
  /\ UNCHANGED <<seq, now>>

\* after the chunk at r.i went in: the next chunk or the response
ReplaceNext(p, r) ==
  IF r.i + ReplaceBATCH < Len(r.all)
  THEN Goto(p, "replace_insert", [r EXCEPT !.i = r.i + ReplaceBATCH, !.nowTs = now]) /\ UNCHANGED resp
  ELSE ReplaceReply(p, r.mode) /\ UNCHANGED req

\* await env.DB.batch(stmts) with insertNew; a failed batch changes nothing
\* and sends the chunk to insertOld
ReplaceInsert(p) ==
  /\ Continue
  /\ pc[p] = "replace_insert"
  /\ LET r == req[p]
         db == ReplaceBatchNew([st |-> store, sq |-> seq, ok |-> TRUE],
                               ReplaceChunk(r.all, r.i), r.nowTs)
     IN IF db.ok
        THEN /\ store' = db.st
             /\ seq' = db.sq
             /\ ReplaceNext(p, r)
        ELSE /\ Goto(p, "replace_insert_old", [r EXCEPT !.mode = "old_schema"])
             /\ UNCHANGED <<store, seq, resp>>
  /\ UNCHANGED now

\* await env.DB.batch(stmts) with insertOld; its failure is not caught
ReplaceInsertOld(p) ==
  /\ Continue
  /\ pc[p] = "replace_insert_old"
  /\ LET r == req[p]
         db == ReplaceBatchOld([st |-> store, sq |-> seq, ok |-> TRUE],
                               ReplaceChunk(r.all, r.i), now)
     IN IF db.ok
        THEN /\ store' = db.st
             /\ seq' = db.sq
             /\ ReplaceNext(p, r)
        ELSE /\ Reply(p, [status |-> 500, ok |-> FALSE, error |-> "exception"])
             /\ UNCHANGED <<store, seq, req>>
  /\ UNCHANGED now

\* ------------------------------------------------ keyset cursor (tickets.js)
\* the value of base64 digit n in the URL-safe alphabet
B64Char(n) ==
  IF n < 26 THEN 65 + n
  ELSE IF n < 52 THEN 97 + (n - 26)
  ELSE IF n < 62 THEN 48 + (n - 52)
  ELSE IF n = 62 THEN 45 ELSE 95

\* the digit a character stands for after "-" -> "+" and "_" -> "/"; NullTs
\* for a character atob rejects
B64Value(c) ==
  IF c \in 65..90 THEN c - 65
  ELSE IF c \in 97..122 THEN c - 71
  ELSE IF c \in 48..57 THEN c + 4
  ELSE IF c \in {45, 43} THEN 62
  ELSE IF c \in {95, 47} THEN 63
  ELSE NullTs

\* b64urlEncodeFromString: btoa, "+/" replaced, "=" padding removed
RECURSIVE b64urlEncodeFromString(_)
b64urlEncodeFromString(s) ==
  IF Len(s) = 0 THEN <<>>
  ELSE IF Len(s) = 1
  THEN <<B64Char(s[1] \div 4), B64Char((s[1] % 4) * 16)>>
  ELSE IF Len(s) = 2
  THEN <<B64Char(s[1] \div 4), B64Char((s[1] % 4) * 16 + s[2] \div 16),
         B64Char((s[2] % 16) * 4)>>
  ELSE <<B64Char(s[1] \div 4), B64Char((s[1] % 4) * 16 + s[2] \div 16),
         B64Char((s[2] % 16) * 4 + s[3] \div 64), B64Char(s[3] % 64)>>
       \o b64urlEncodeFromString(SubSeq(s, 4, Len(s)))

\* the bytes of base64 digits d (atob after padding)
RECURSIVE B64Bytes(_)
B64Bytes(d) ==
  IF Len(d) < 2 THEN <<>>
  ELSE IF Len(d) = 2 THEN <<d[1] * 4 + d[2] \div 16>>
  ELSE IF Len(d) = 3 THEN <<d[1] * 4 + d[2] \div 16, (d[2] % 16) * 16 + d[3] \div 4>>
  ELSE <<d[1] * 4 + d[2] \div 16, (d[2] % 16) * 16 + d[3] \div 4, (d[3] % 4) * 64 + d[4]>>
       \o B64Bytes(SubSeq(d, 5, Len(d)))

\* b64urlDecodeToString: "" for an empty input and when atob throws
b64urlDecodeToString(input) ==
  LET t == Trim(input)
      d == [k \in 1..Len(t) |-> B64Value(t[k])]
  IN IF t = <<>> \/ Len(t) % 4 = 1 \/ \E k \in 1..Len(t) : d[k] = NullTs
     THEN <<>>
     ELSE B64Bytes(d)

\* the characters of a JSON string literal for text s, quotes included
RECURSIVE JsonQuoted(_)
JsonQuoted(s) ==
  IF s = <<>> THEN <<>>
  ELSE (IF Head(s) \in {34, 92} THEN <<92, Head(s)>> ELSE <<Head(s)>>) \o JsonQuoted(Tail(s))

\* String(v) of a column value: a NULL column prints as "null"
StringOf(v) == IF v = NULL THEN <<110, 117, 108, 108>> ELSE v

\* JSON.stringify({ v: String(v), id: Number(id) })
CursorJson(v, id) ==
  <<123, 34, 118, 34, 58, 34>> \o JsonQuoted(StringOf(v)) \o <<34, 44, 34, 105, 100, 34, 58>>
  \o Digits(id) \o <<125>>

\* encodeCursor
encodeCursor(v, id) == b64urlEncodeFromString(CursorJson(v, id))

\* btoa throws InvalidCharacterError for a text with a code unit above 255
btoaThrows(s) == \E k \in 1..Len(s) : s[k] > 255

\* encodeCursor({ v, id }) throws
encodeCursorThrows(v, id) == btoaThrows(CursorJson(v, id))

\* reading a JSON string literal of txt from position k (after the opening
\* quote): the text and the position after the closing quote
RECURSIVE JsonScan(_, _, _)
JsonScan(txt, k, acc) ==
  IF k > Len(txt) THEN [ok |-> FALSE]
  ELSE IF txt[k] = 34 THEN [ok |-> TRUE, v |-> acc, next |-> k + 1]
  ELSE IF txt[k] = 92
  THEN (IF k + 1 <= Len(txt) /\ txt[k + 1] \in {34, 92}
        THEN JsonScan(txt, k + 2, Append(acc, txt[k + 1]))
        ELSE [ok |-> FALSE])
  ELSE JsonScan(txt, k + 1, Append(acc, txt[k]))

\* JSON.parse(txt) for a text of the form {"v":"...","id":<digits>} or
\* {"v":"...","id":null}; any other text counts as unparseable
CursorParse(txt) ==
  IF Len(txt) < 6 \/ SubSeq(txt, 1, 6) # <<123, 34, 118, 34, 58, 34>>
  THEN [ok |-> FALSE]
  ELSE LET sc == JsonScan(txt, 7, <<>>)
       IN IF ~sc.ok THEN [ok |-> FALSE]
          ELSE LET rest == SubSeq(txt, sc.next, Len(txt))
                   num == SubSeq(rest, 7, Len(rest) - 1)
               IN IF /\ Len(rest) >= 8
                     /\ SubSeq(rest, 1, 6) = <<44, 34, 105, 100, 34, 58>>
                     /\ rest[Len(rest)] = 125
                     /\ \A k \in 1..Len(num) : IsDigit(num[k])
                  THEN [ok |-> TRUE, v |-> sc.v, id |-> DigitsValue(num)]
                  \* "id":null parses, and Number(null) is 0
                  ELSE IF /\ Len(rest) >= 8
                          /\ SubSeq(rest, 1, 6) = <<44, 34, 105, 100, 34, 58>>
                          /\ rest[Len(rest)] = 125
                          /\ num = <<110, 117, 108, 108>>
                  THEN [ok |-> TRUE, v |-> sc.v, id |-> 0]
                  ELSE [ok |-> FALSE]

\* decodeCursor: no cursor when the token is empty or undecodable, when the
\* JSON does not parse, or when v is empty
decodeCursor(raw) ==
  LET txt == b64urlDecodeToString(raw)
  IN IF txt = <<>> THEN [ok |-> FALSE]
     ELSE LET obj == CursorParse(txt)
          IN IF ~obj.ok THEN [ok |-> FALSE]
             ELSE IF obj.v = <<>> THEN [ok |-> FALSE]
             ELSE obj

\* ------------------------------------------------ GET /api/tickets (list)
\* the column the listing sorts by
SortValue(row, trash) == IF trash THEN row.deleted_at ELSE row.date

\* SQLite's order of two column values: NULL before every text
ValueLess(a, b) ==
  IF a = NULL THEN b # NULL
  ELSE IF b = NULL THEN FALSE
  ELSE StrLess(a, b)

\* ORDER BY <sortCol> ASC, id ASC
KeyLess(st, trash, i, j) ==
  \/ ValueLess(SortValue(st[i], trash), SortValue(st[j], trash))
  \/ SortValue(st[i], trash) = SortValue(st[j], trash) /\ i < j

\* the ids of S in ascending order
RECURSIVE Ordered(_, _, _)
Ordered(st, trash, S) ==
  IF S = {} THEN <<>>
  ELSE LET m == CHOOSE i \in S : \A j \in S \ {i} : KeyLess(st, trash, i, j)
       IN <<m>> \o Ordered(st, trash, S \ {m})

Reverse(q) == [k \in 1..Len(q) |-> q[Len(q) + 1 - k]]

\* variant: the listing without its WHERE is_deleted=? filter
ListedUnfiltered(st, trash) == DOMAIN st

\* WHERE is_deleted=?
Listed(st, trash) == {i \in DOMAIN st : st[i].is_deleted = (IF trash THEN 1 ELSE 0)}

\* (variant for sensitivity checks: the cursor's own row is not excluded,
\* tickets.id >= ?)
AfterCursorInclusive(st, trash, cursor) ==
  {i \in Listed(st, trash) :
     LET x == SortValue(st[i], trash)
     IN x # NULL /\ (StrLess(cursor.v, x) \/ (x = cursor.v /\ i >= cursor.id))}

\* (<sortCol> > ? OR (<sortCol> = ? AND tickets.id > ?)); a NULL column value
\* satisfies no comparison
AfterCursor(st, trash, cursor) ==
  {i \in Listed(st, trash) :
     LET x == SortValue(st[i], trash)
     IN x # NULL /\ (StrLess(cursor.v, x) \/ (x = cursor.v /\ i > cursor.id))}

\* (<sortCol> < ? OR (<sortCol> = ? AND tickets.id < ?))
BeforeCursor(st, trash, cursor) ==
  {i \in Listed(st, trash) :
     LET x == SortValue(st[i], trash)
     IN x # NULL /\ (StrLess(x, cursor.v) \/ (x = cursor.v /\ i < cursor.id))}

\* LIMIT n OFFSET k of a result list
LimitOffset(q, n, k) ==
  SubSeq(q, k + 1, IF k + n < Len(q) THEN k + n ELSE Len(q))

\* the rows of the page, in the order the response carries them
PageIds(st, trash, cursor, direction, pageSize, offset) ==
  IF ~cursor.ok
  THEN LimitOffset(Ordered(st, trash, Listed(st, trash)), pageSize, offset)
  ELSE IF direction = "next"
  THEN LimitOffset(Ordered(st, trash, AfterCursor(st, trash, cursor)), pageSize, 0)
  ELSE Reverse(LimitOffset(Reverse(Ordered(st, trash, BeforeCursor(st, trash, cursor))),
                           pageSize, 0))

PageSizes == {1, 2}

\* every row of table a is in table b, as it was
OnlyAdded(a, b) == \A i \in DOMAIN a : i \in DOMAIN b /\ b[i] = a[i]

\* the ids of the rows of a page, in the page's order
DataIdsOf(data) == [k \in 1..Len(data) |-> data[k].id]

\* A client asks for the first page (no cursor), or follows the next_cursor or
\* prev_cursor of the page it has just received, keeping trash and pageSize.
\* walk lists the ids of the pages of an unbroken forward walk from the first
\* page; it is <<0>> once the client has gone backwards.
\* History kept for the analysis, not by the program: since is the table when
\* the walk began, seen the table at the walk's latest query, and clean says
\* that from one query of the walk to the next rows were only added; anchor
\* is the row (sort value and id) the cursor being followed was made from;
\* prior is the full page the client left with next_cursor to reach the page
\* this request asked for, and expect, on a direction=prev request, the full
\* page from which the page being left had been reached.
ListStart(p, trash, pageSize, direction, follow) ==
  /\ IF follow THEN Continue ELSE Begin
  /\ IF follow
     THEN /\ pc[p] = "done" /\ req[p].kind = "list"
          /\ req[p].trash = trash /\ req[p].pageSize = pageSize
          /\ req[p].pages < MaxPages
          /\ (IF direction = "next" THEN resp[p].next_cursor ELSE resp[p].prev_cursor) # NULL
     ELSE Idle(p) /\ direction = "next"
  /\ LET raw == IF ~follow THEN <<>>
                ELSE IF direction = "next" THEN resp[p].next_cursor ELSE resp[p].prev_cursor
     IN /\ Goto(p, "list_count",
                [kind |-> "list", trash |-> trash, pageSize |-> pageSize,
                 direction |-> direction, cursor |-> decodeCursor(raw), page |-> 1,
                 pages |-> IF follow THEN req[p].pages + 1 ELSE 1,
                 walk |-> IF ~follow THEN <<>>
                          ELSE IF direction = "next" THEN req[p].walk ELSE <<0>>,
                 anchor |-> IF ~follow THEN [v |-> NULL, id |-> NoId]
                            ELSE LET d == resp[p].data
                                     x == IF direction = "next" THEN d[Len(d)] ELSE d[1]
                                 IN [v |-> SortValue(x.row, trash), id |-> x.id],
                 since |-> IF follow THEN req[p].since ELSE store,
                 seen |-> IF follow THEN req[p].seen ELSE store,
                 clean |-> IF follow THEN req[p].clean ELSE TRUE,
                 prior |-> IF follow /\ direction = "next" /\ Len(resp[p].data) = pageSize
                           THEN DataIdsOf(resp[p].data) ELSE <<>>,
                 expect |-> IF follow /\ direction = "prev" THEN req[p].prior ELSE <<>>])
        /\ resp' = [resp EXCEPT ![p] = NoResp]
  /\ UNCHANGED <<store, seq, now>>

\* cursor parameters a client makes up instead of following a response:
\* "" ; "!!" (not base64url) ; base64url of abc (not JSON) ; a cursor with an
\* empty v ; base64url of {"v":"2025-01-01"} (no id) ; base64url of
\* {"v":"2025-01-01","id":null}
RawCursors ==
  { [kind |-> "empty", token |-> <<>>],
    [kind |-> "not_base64", token |-> <<33, 33>>],
    [kind |-> "not_json", token |-> b64urlEncodeFromString(<<97, 98, 99>>)],
    [kind |-> "empty_v", token |-> encodeCursor(<<>>, 1)],
    [kind |-> "no_id",
     token |-> b64urlEncodeFromString(<<123, 34, 118, 34, 58, 34>> \o Date1 \o <<34, 125>>)],
    [kind |-> "null_id",
     token |-> b64urlEncodeFromString(<<123, 34, 118, 34, 58, 34>> \o Date1
                                      \o <<34, 44, 34, 105, 100, 34, 58, 110, 117, 108, 108, 125>>)] }

\* the page parameter of such a request
Pages == {1, 2}

\* GET /api/tickets?cursor=<raw>&page=<page>&... with a cursor parameter of
\* the client's own making.  rawKind is history kept for the analysis.
ListStartRaw(p, trash, pageSize, direction, page, raw) ==
  /\ Begin
  /\ Idle(p)
  /\ Goto(p, "list_count",
          [kind |-> "list", trash |-> trash, pageSize |-> pageSize,
           direction |-> direction, cursor |-> decodeCursor(raw.token), page |-> page,
           pages |-> 1, walk |-> <<0>>, anchor |-> [v |-> NULL, id |-> NoId],
           since |-> store, seen |-> store, clean |-> TRUE, rawKind |-> raw.kind,
           prior |-> <<>>, expect |-> <<>>])
  /\ resp' = [resp EXCEPT ![p] = NoResp]
  /\ UNCHANGED <<store, seq, now>>

\* countRow = await env.DB.prepare(countSql).bind(...binds).first()
ListCount(p) ==
  /\ Continue
  /\ pc[p] = "list_count"
  /\ Goto(p, "list_rows", req[p] @@ [total |-> Cardinality(Listed(store, req[p].trash))])
  /\ UNCHANGED <<store, seq, now, resp>>

\* the catch block's last resort (written for the schema without is_deleted):
\* SELECT * FROM tickets ORDER BY date ASC, id ASC LIMIT ? OFFSET ?
FallbackIds(st, pageSize, offset) ==
  LimitOffset(Ordered(st, FALSE, DOMAIN st), pageSize, offset)

\* { results } = await bound.all() and the response.  When encodeCursor
\* throws for the first or last row, the catch block answers from the
\* fallback query (its count and rows are read in this step) with a body
\* that has no next_cursor and no prev_cursor key, which a client reads as
\* absent cursors.
ListRows(p) ==
  /\ Continue
  /\ pc[p] = "list_rows"
  /\ LET r == req[p]
         rows == PageIds(store, r.trash, r.cursor, r.direction, r.pageSize,
                         (r.page - 1) * r.pageSize)
         first == IF rows = <<>> THEN NoId ELSE rows[1]
         last == IF rows = <<>> THEN NoId ELSE rows[Len(rows)]
         thrown == \E i \in {first, last} \ {NoId} :
                     encodeCursorThrows(SortValue(store[i], r.trash), i)
         rows2 == FallbackIds(store, r.pageSize, (r.page - 1) * r.pageSize)
     IN /\ resp' = [resp EXCEPT ![p] =
                      IF thrown
                      THEN [status |-> 200,
                            data |-> [k \in 1..Len(rows2) |->
                                        [id |-> rows2[k], row |-> store[rows2[k]]]],
                            page |-> r.page, pageSize |-> r.pageSize,
                            total |-> Cardinality(DOMAIN store),
                            next_cursor |-> NULL, prev_cursor |-> NULL]
                      ELSE
                      [status |-> 200,
                       data |-> [k \in 1..Len(rows) |-> [id |-> rows[k], row |-> store[rows[k]]]],
                       page |-> r.page, pageSize |-> r.pageSize, total |-> r.total,
                       next_cursor |-> IF last = NoId THEN NULL
                                       ELSE encodeCursor(SortValue(store[last], r.trash), last),
                       prev_cursor |-> IF first = NoId THEN NULL
                                       ELSE encodeCursor(SortValue(store[first], r.trash), first)]]
        /\ req' = [req EXCEPT ![p].walk = IF r.walk = <<0>> THEN @ ELSE @ \o rows,
                              ![p].seen = store,
                              ![p].clean = @ /\ OnlyAdded(r.seen, store)]
        /\ pc' = [pc EXCEPT ![p] = "done"]
  /\ UNCHANGED <<store, seq, now>>

\* --------------------------------------------------------- the state machine
\* a fresh database (schema.sql applied) and no request in flight
Init ==
  /\ store = EmptyStore
  /\ seq = 0
  /\ now = StartNow
  /\ pc = [p \in Procs |-> "idle"]
  /\ req = [p \in Procs |-> NoReq]
  /\ resp = [p \in Procs |-> NoResp]
  /\ started = 0
  /\ purged = {}

Create(p) ==
  \/ \E body \in CreateBodies : CreateStart(p, body)
  \/ CreateInsertStep(p)
  \/ CreateBackfillStep(p)

Update(p) ==
  \/ \E id \in Ids, body \in UpdateBodies, force, sendTs, sendStr \in BOOLEAN :
       \* a forced update needs no token
       /\ force => (~sendTs /\ ~sendStr)
       /\ PutStart(p, id, body, force, sendTs, sendStr)
  \/ PutRead(p)
  \/ PutWrite(p)
  \/ PutReply(p)

SoftDelete(p) ==
  \/ \E id \in Ids : DeleteStart(p, id)
  \/ DeleteWrite(p)
  \/ DeleteCheck(p)

Restore(p) ==
  \/ \E id \in Ids : RestoreStart(p, id)
  \/ RestoreWrite(p)
  \/ RestoreCheck(p)

Purge(p) == \E id \in Ids : HardDelete(p, id)

ImportApply(p) ==
  \/ \E payload \in Payloads : ApplyStart(p, payload)
  \/ ApplyEnsure(p)
  \/ ApplyFetch(p)
  \/ ApplyBatchStep(p)
  \/ ApplyFts(p)

\* an import of more than one batch, and batches that fail
ImportLarge(p) ==
  \/ ApplyStart(p, PayloadBig)
  \/ ApplyBatchFail(p)
  \/ ApplyFtsFail(p)

ImportPreview(p) ==
  \/ \E payload \in Payloads : PreviewStart(p, payload)
  \/ PreviewEnsure(p)
  \/ PreviewFetch(p)

ImportReplace(p) ==
  \/ \E payload \in Payloads : ReplaceStart(p, payload)
  \/ ReplaceClear(p)
  \/ ReplaceInsert(p)
  \/ ReplaceInsertOld(p)

List(p) ==
  \/ \E trash \in BOOLEAN, pageSize \in PageSizes, direction \in {"next", "prev"},
        follow \in BOOLEAN : ListStart(p, trash, pageSize, direction, follow)
  \/ ListCount(p)
  \/ ListRows(p)

\* an import of an export with two records of one id
ImportPairs(p) == \E payload \in PairPayloads : ApplyStart(p, payload)

\* a soft delete that meets a failing store call
SoftDeleteFailing(p) == \E id \in Ids : DeleteThrows(p, id)

\* a ticket created with a date outside Latin-1
CreateWide(p) == CreateStart(p, BodyWide)

\* a listing request with a made-up cursor parameter
ListRaw(p) ==
  \E trash \in BOOLEAN, pageSize \in PageSizes, direction \in {"next", "prev"},
     page \in Pages, raw \in RawCursors :
    ListStartRaw(p, trash, pageSize, direction, page, raw)

Step(p) ==
  \/ Create(p) \/ Update(p) \/ SoftDelete(p) \/ Restore(p) \/ Purge(p)
  \/ ImportApply(p) \/ ImportLarge(p) \/ ImportPreview(p) \/ ImportReplace(p) \/ List(p)
  \/ ListRaw(p) \/ CreateWide(p) \/ SoftDeleteFailing(p) \/ ImportPairs(p)
  \/ Return(p)

\* the requests that write single tickets or merge an import, sent by several
\* clients and interleaving at their awaits
Next ==
  \/ Tick
  \/ \E p \in Procs :
       Create(p) \/ Update(p) \/ SoftDelete(p) \/ Restore(p) \/ ImportApply(p) \/ Return(p)

Spec == Init /\ [][Next]_vars

\* every kind of request, one client at a time: no request starts before the
\* previous one returned
NextSeq == Tick \/ Step(1)

SpecSeq == Init /\ [][NextSeq]_vars

\* one client pages through a listing while another creates, updates, deletes
\* and imports
NextWalk ==
  \/ Tick
  \/ List(1) \/ Return(1)
  \/ Create(2) \/ Update(2) \/ SoftDelete(2) \/ ImportApply(2) \/ Return(2)

SpecWalk == Init /\ [][NextWalk]_vars

\* one client updates while the store fails for one of its calls, another
\* soft-deletes and restores
NextFail ==
  \/ Tick
  \/ Create(1) \/ Update(1) \/ PutWriteThrows(1) \/ Return(1)
  \/ SoftDelete(2) \/ Restore(2) \/ Return(2)

SpecFail == Init /\ [][NextFail]_vars

\* ------------------------------------------------------------ properties
\* the handler invocation p takes a step
StepOf(p) == pc'[p] # pc[p]

\* the stored row of r.id does not carry the token r sent
TokenMismatch(r, row) ==
  IF r.hasClientTs THEN row.updated_at_ts # r.clientUpdatedAtTs
  ELSE row.updated_at # r.clientUpdatedAt

\* C1: of two non-forced updates of one ticket that carry the same, current
\* version token, only one succeeds: the one the other's write overtook
\* (lostTo) never answers ok.
C1_LoserNeverSucceeds ==
  \A p \in Procs :
    (pc[p] = "done" /\ req[p].kind = "put" /\ req[p].lostTo # 0) => resp[p].status # 200

\* C2: a non-forced update of an Active ticket whose token is not the stored
\* one changes nothing in the table, and its answer is 409 "conflict" carrying
\* the stored record, the client's token and the stored version.
C2_StaleTokenConflict ==
  [][\A p \in Procs :
       /\ ( /\ pc[p] = "put_write" /\ StepOf(p) /\ ~req[p].force
            /\ req[p].id \in DOMAIN store
            /\ store[req[p].id].is_deleted = 0
            /\ TokenMismatch(req[p], store[req[p].id]) )
          => (store' = store /\ req'[p].changes = 0)
       /\ ( /\ pc[p] = "put_reply" /\ StepOf(p) /\ ~req[p].force /\ req[p].changes = 0
            /\ req[p].id \in DOMAIN store )
          => ( /\ resp'[p].status = 409
               /\ resp'[p].error = "conflict"
               /\ resp'[p].current = store[req[p].id]
               /\ resp'[p].server_updated_at = StringOrEmpty(store[req[p].id].updated_at)
               /\ resp'[p].server_updated_at_ts = NumberOrZero(store[req[p].id].updated_at_ts)
               /\ resp'[p].client_updated_at = req[p].clientUpdatedAt
               /\ resp'[p].client_updated_at_ts =
                    (IF req[p].hasClientTs THEN req[p].clientUpdatedAtTs ELSE NullTs)
               /\ store' = store )
    ]_vars

\* an update was refused with the stored record, which a later update than
\* the one the client had seen produced
C2_Witness ==
  \E p \in Procs :
    /\ pc[p] = "done" /\ req[p].kind = "put" /\ ~req[p].force
    /\ resp[p].status = 409
    /\ req[p].hasClientTs
    /\ req[p].id \in DOMAIN store
    /\ store[req[p].id].is_deleted = 0
    /\ store[req[p].id].updated_at_ts > req[p].clientUpdatedAtTs
    /\ resp[p].current = store[req[p].id]
    /\ resp[p].server_updated_at_ts > resp[p].client_updated_at_ts

\* C3: no step lowers the updated_at_ts of a ticket that stays in the table.
C3_VersionNeverDecreases ==
  [][\A id \in DOMAIN store \cap DOMAIN store' :
       CoalesceTs(store'[id].updated_at_ts) >= CoalesceTs(store[id].updated_at_ts)]_vars

\* C4: in every row, is_deleted is set exactly when deleted_at is not NULL.
C4_DeletedIffDeletedAt ==
  \A id \in DOMAIN store : (store[id].is_deleted = 1) <=> (store[id].deleted_at # NULL)

\* the raw records of the payload of r, in the order of r.incoming
RawRecords(r) == r.payload.active \o r.payload.trash

\* a raw record without version information: no positive updated_at_ts and
\* no updated_at text
VersionLess(raw) == raw.updated_at_ts <= 0 /\ Trim(StringOrEmpty(raw.updated_at)) = <<>>

\* the positions of the chunk the apply request r is about to write
ChunkPositions(r) ==
  {k \in 1..Len(r.incoming) : r.i < k /\ k <= r.i + BATCH}

\* the apply request p executes the batch it has built
BatchRuns(p) == pc[p] = "apply_batch" /\ (pc'[p] # pc[p] \/ req'[p] # req[p])

C6_OverwriteOnlyIfNewerAtWrite ==
  [][\A p \in Procs :
       BatchRuns(p)
       => \A id \in DOMAIN store :
            /\ id \in DOMAIN store'
            /\ store'[id] # store[id]
               => \E k \in ChunkPositions(req[p]) :
                    /\ req[p].incoming[k].id = id
                    /\ req[p].incoming[k].has_version
                    /\ req[p].incoming[k].updated_at_ts > CoalesceTs(store[id].updated_at_ts)
    ]_vars

\* a batch left a row alone that the snapshot had called older than the
\* incoming record: the row was updated between snapshot and batch
C6_Witness ==
  \E p \in Procs :
    /\ req[p].kind = "apply" /\ pc[p] \in {"apply_fts", "done"}
    /\ "declined" \in DOMAIN req[p]
    /\ req[p].declined # {}

\* the three counts a preview or an apply reports
Counts(totals) == <<totals.inserts, totals.updates, totals.skips>>

\* C7: an apply that follows a preview of the same payload, with no write in
\* between, reports the inserts, updates and skips the preview reported.
C7_PreviewEqualsApply ==
  \A p \in Procs :
    ( /\ pc[p] = "done" /\ req[p].kind = "apply" /\ resp[p].status = 200
      /\ req[p].after = "preview" )
    => Counts(resp[p].totals) = Counts(req[p].previous)

\* C8: an apply that follows an apply of the same payload, with no write in
\* between, reports no insert and no update and leaves the table as the first
\* apply left it.
C8_ApplyIdempotent ==
  \A p \in Procs :
    ( /\ pc[p] = "done" /\ req[p].kind = "apply" /\ resp[p].status = 200
      /\ req[p].after = "apply" )
    => ( /\ resp[p].totals.inserts = 0
         /\ resp[p].totals.updates = 0
         /\ store = req[p].before )

\* C9: no step of an import preview changes the table.
C9_PreviewReadOnly ==
  [][\A p \in Procs :
       (pc[p] \in {"preview_ensure", "preview_fetch"} /\ StepOf(p)) => store' = store]_vars

\* the ids of walk are in strictly ascending (date, id) order
RECURSIVE Ascending(_, _)
Ascending(st, walk) ==
  \/ Len(walk) < 2
  \/ /\ walk[1] \in DOMAIN st /\ walk[2] \in DOMAIN st
     /\ KeyLess(st, FALSE, walk[1], walk[2])
     /\ Ascending(st, Tail(walk))

\* C10: the pages of a forward walk of the Active listing, taken together,
\* are in strictly ascending (date, id) order, so no ticket comes twice; a
\* walk that has reached the end has returned every Active ticket.
C10_ForwardWalkExactlyOnce ==
  \A p \in Procs :
    ( /\ pc[p] = "done" /\ req[p].kind = "list" /\ ~req[p].trash
      /\ req[p].walk # <<0>> )
    => ( /\ Ascending(store, req[p].walk)
         /\ resp[p].next_cursor = NULL
            => {req[p].walk[k] : k \in 1..Len(req[p].walk)} = Listed(store, FALSE) )

\* the ids a walk has returned so far
WalkSet(walk) == {walk[k] : k \in 1..Len(walk)}

\* no id comes twice in walk
NoRepeat(walk) == \A j, k \in 1..Len(walk) : j # k => walk[j] # walk[k]

BelowAnchor(st, trash, anchor, i) ==
  \/ ValueLess(SortValue(st[i], trash), anchor.v)
  \/ SortValue(st[i], trash) = anchor.v /\ i < anchor.id

\* the ids of a response, in its order
DataIds(rs) == [k \in 1..Len(rs.data) |-> rs.data[k].id]

\* the ids of q are in strictly ascending (sort value, id) order
RECURSIVE AscendingBy(_, _, _)
AscendingBy(st, trash, q) ==
  \/ Len(q) < 2
  \/ KeyLess(st, trash, q[1], q[2]) /\ AscendingBy(st, trash, Tail(q))

\* C12: a direction=prev request that carries the prev_cursor of a page
\* returns, in ascending (sort value, id) order, at most pageSize rows of the
\* listing, all strictly below the row the cursor was made from, and no row
\* below the cursor that it leaves out lies above one it returns.
C12_PrevPage ==
  [][\A p \in Procs :
       ( /\ pc[p] = "list_rows" /\ StepOf(p)
         /\ req[p].direction = "prev" /\ req[p].anchor.id # NoId )
       => LET ids == DataIds(resp'[p])
              got == WalkSet(ids)
              below == {i \in Listed(store, req[p].trash) :
                          BelowAnchor(store, req[p].trash, req[p].anchor, i)}
          IN /\ Len(ids) <= req[p].pageSize
             /\ got \subseteq below
             /\ Cardinality(got) = Len(ids)
             /\ AscendingBy(store, req[p].trash, ids)
             /\ \A i \in below \ got :
                  /\ Len(ids) = req[p].pageSize
                  /\ \A j \in got : KeyLess(store, req[p].trash, i, j)
    ]_vars

\* the ticket the request of p names is in the table and Deleted
TargetDeleted(p) ==
  req[p].id \in DOMAIN store /\ isDeletedRow(store[req[p].id])

\* the response p is about to return is the "deleted" error
RepliesDeleted(p) ==
  resp'[p].status = 410 /\ resp'[p].error = "deleted"

\* C13: an update or a soft delete that meets its ticket Deleted leaves the
\* table as it is and answers 410 "deleted": at the existence check of the
\* update, and also when the conditional UPDATE of either handler met the
\* ticket Deleted.
C13_DeletedIsRejected ==
  [][\A p \in Procs :
       /\ (pc[p] = "put_read" /\ StepOf(p) /\ TargetDeleted(p))
          => (RepliesDeleted(p) /\ store' = store)
       /\ (pc[p] \in {"put_write", "delete_write"} /\ StepOf(p) /\ TargetDeleted(p))
          => store' = store
       /\ (pc[p] \in {"put_reply", "delete_check"} /\ StepOf(p) /\ req[p].metDeleted)
          => (RepliesDeleted(p) /\ store' = store)
    ]_vars

\* p has finished a non-forced update, q a soft delete or restore of the same
\* ticket, and q was sent when the ticket was as p's update read it
RacedFromSameVersion(p, q) ==
  /\ pc[p] = "done" /\ req[p].kind = "put" /\ ~req[p].force
  /\ "current" \in DOMAIN req[p]
  /\ pc[q] = "done" /\ req[q].kind \in {"delete", "restore"}
  /\ req[q].id = req[p].id
  /\ req[q].seen = <<req[p].current>>

\* the soft delete or restore of q did its write
Wrote(q) == resp[q].status = 200 /\ ~resp[q].already

\* C14: of a non-forced update and a soft delete or restore that start from
\* the same stored version of a ticket, exactly one does its write and the
\* other is told that it lost.
C14_DeleteRestoreAreCas ==
  \A p, q \in Procs :
    RacedFromSameVersion(p, q) => ((resp[p].status = 200) <=> ~Wrote(q))

\* the ticket the request of p names is in the table and Active
TargetActive(p) ==
  req[p].id \in DOMAIN store /\ store[req[p].id].is_deleted = 0

\* C15: the UPDATE of a restore that meets its ticket Active changes nothing
\* in the table, and the handler then answers ok with already = true, again
\* without changing the table; so a second restore of a ticket leaves it as
\* the first restore left it.
C15_RestoreActiveIsNoOp ==
  [][\A p \in Procs :
       /\ (pc[p] = "restore_write" /\ StepOf(p) /\ TargetActive(p))
          => (store' = store /\ pc'[p] = "restore_check")
       /\ (pc[p] = "restore_check" /\ StepOf(p) /\ req[p].id \in DOMAIN store)
          => ( /\ resp'[p].status = 200 /\ resp'[p].ok /\ resp'[p].already
               /\ store' = store )
    ]_vars

\* a second restore has answered "already": the ticket came in through the
\* trash part of an import, an earlier restore made it Active and stamped it,
\* and it is still as it was when the second restore was sent
C15_Witness ==
  \E p \in Procs :
    /\ pc[p] = "done" /\ req[p].kind = "restore"
    /\ resp[p].status = 200 /\ resp[p].already
    /\ req[p].id = RecTrash.id /\ req[p].id \in DOMAIN store
    /\ Content(store[req[p].id]) = Content(RecTrash)
    /\ store[req[p].id].is_deleted = 0 /\ store[req[p].id].deleted_at = NULL
    /\ store[req[p].id].updated_at_ts # RecTrash.updated_at_ts
    /\ req[p].seen = <<store[req[p].id]>>

\* C16: the UPDATE of a soft delete that meets its ticket Deleted changes
\* nothing in the table (deleted_at and updated_at_ts stay as the first soft
\* delete set them), and the handler, finding the ticket Deleted, answers ok
\* with already = true, again without changing the table.
C16_DeleteDeletedIsNoOp ==
  [][\A p \in Procs :
       /\ (pc[p] = "delete_write" /\ StepOf(p) /\ TargetDeleted(p))
          => (store' = store /\ pc'[p] = "delete_check")
       /\ (pc[p] = "delete_check" /\ StepOf(p) /\ TargetDeleted(p))
          => ( /\ resp'[p].status = 200 /\ resp'[p].ok /\ resp'[p].already
               /\ store' = store )
    ]_vars

\* a second soft delete of a created ticket has answered "already"; the row
\* is Deleted and still as it was when the second request was sent
C16_Witness ==
  \E p \in Procs :
    /\ pc[p] = "done" /\ req[p].kind = "delete"
    /\ resp[p].status = 200 /\ resp[p].already
    /\ req[p].metDeleted
    /\ req[p].id \in DOMAIN store
    /\ Content(store[req[p].id]) = Content(BodyA)
    /\ store[req[p].id].is_deleted = 1 /\ store[req[p].id].deleted_at # NULL
    /\ req[p].seen = <<store[req[p].id]>>

\* C17: a hard delete removes the row it names, Active or Deleted, and no
\* ticket whose row a hard delete has removed is in the table again.
C17_PurgedIsTerminal ==
  /\ purged \cap DOMAIN store = {}
  /\ \A p \in Procs :
       (pc[p] = "done" /\ req[p].kind = "hard" /\ resp[p].status = 200)
       => req[p].id \notin DOMAIN store

\* a raw record whose date or issue is empty once surrounding blanks are gone
RawBad(raw) ==
  Trim(StringOrEmpty(raw.date)) = <<>> \/ Trim(StringOrEmpty(raw.issue)) = <<>>

\* the payload of request r holds a record without date or issue
HasRawBad(r) == \E k \in 1..Len(RawRecords(r)) : RawBad(RawRecords(r)[k])

\* C18: an import apply whose payload holds a record with an empty date or
\* issue, at whatever position, is answered 400 in its first step, which
\* writes nothing; no later step of the handler runs for such a payload.
C18_BadRecordRejectsAll ==
  [][\A p \in Procs :
       /\ (req'[p] # req[p] /\ req'[p].kind = "apply" /\ req[p].kind # "apply" /\ HasRawBad(req'[p]))
          => ( /\ pc'[p] = "done"
               /\ resp'[p].status = 400 /\ ~resp'[p].ok
               /\ store' = store /\ seq' = seq )
       /\ (pc[p] \in {"apply_ensure", "apply_fetch", "apply_batch", "apply_fts"})
          => ~HasRawBad(req[p])
    ]_vars

\* an apply was refused for a bad record that is not the first of its
\* payload; the good record before it was not inserted
C18_Witness ==
  \E p \in Procs :
    /\ pc[p] = "done" /\ req[p].kind = "apply"
    /\ resp[p].status = 400
    /\ req[p].payload = Payload(<<RecSql, RecBlank>>, <<>>)
    /\ RecSql.id \notin DOMAIN store

\* the apply request of p gets the failure of its batch
BatchFails(p) == pc[p] = "apply_batch" /\ pc'[p] = "done" /\ resp'[p].status # 200

\* C19: every batch of an import apply holds at most BATCH records and is
\* all or nothing.  A batch that fails leaves the table as the batches
\* before it left it and ends the request with status 500; the request then
\* executes no further batch.  A batch that does not fail stores the effect
\* of all its statements.
C19_BatchIsAtomic ==
  [][\A p \in Procs :
       /\ BatchRuns(p)
          => LET r == req[p]
                 chunk == Chunk(r.incoming, r.i)
             IN /\ 0 < Len(chunk) /\ Len(chunk) <= BATCH
                /\ IF BatchFails(p)
                   THEN /\ store' = store /\ seq' = seq
                        /\ resp'[p].status = 500 /\ ~resp'[p].ok
                   ELSE /\ store' = ApplyBatch([st |-> store, sq |-> seq], chunk, r.nowTs, now).st
                        /\ pc'[p] = "apply_batch" => req'[p].i = r.i + BATCH
       /\ (pc[p] = "done" /\ req[p].kind = "apply" /\ resp[p].status = 500 /\ StepOf(p))
          => (store' = store /\ pc'[p] \in {"idle", "apply_ensure"})
    ]_vars

\* the second batch of an import failed: the ticket the first batch inserted
\* is in the table, the ticket of the second batch is not
C19_Witness ==
  \E p \in Procs :
    /\ pc[p] = "done" /\ req[p].kind = "apply" /\ resp[p].status = 500
    /\ req[p].payload = PayloadBig
    /\ req[p].i = BATCH
    /\ req[p].start.st = EmptyStore
    /\ DOMAIN store = {1}
    /\ Content(store[1]) = Content(RecNoId)

\* the clock readings of a run
ClockValues == {t \in StartNow..MaxNow : (t - StartNow) % TickMs = 0}

\* a failure-free import apply of incoming on database db, from the chunk at
\* offset i on, all at one clock reading
RECURSIVE ApplyWhole(_, _, _, _, _)
ApplyWhole(db, incoming, i, nowTs, dbNow) ==
  IF i >= Len(incoming) THEN db
  ELSE LET mid == ApplyBatch(db, Chunk(incoming, i), nowTs, dbNow)
       IN IF Computed(mid) THEN ApplyWhole(mid, incoming, i + BATCH, nowTs, dbNow) ELSE mid

\* the tables a single failure-free apply of the payload of r can leave when
\* it starts from the database the first attempt of r started from
FailureFree(r) ==
  {ApplyWhole([st |-> ensureSoftDeleteColumns(r.start.st), sq |-> r.start.sq],
              r.incoming, 0, t, t).st : t \in ClockValues}

\* C20: an import apply that is re-submitted after its earlier attempt had
\* failed in a batch, and that runs to its end, leaves the table a single
\* failure-free apply would have left, and counts as insert or update none
\* of the records the failed attempt had committed.
C20_RetryIsSafe ==
  \A p \in Procs :
    ( /\ pc[p] = "done" /\ req[p].kind = "apply" /\ resp[p].status = 200
      /\ req[p].after = "failed" )
    => ( /\ store \in FailureFree(req[p])
         /\ resp[p].totals.inserts + resp[p].totals.updates
              <= Len(req[p].incoming) - req[p].applied )

\* C21: every row of the table has a non-empty date and a non-empty issue.
C21_DateAndIssueNonEmpty ==
  \A id \in DOMAIN store : store[id].date # <<>> /\ store[id].issue # <<>>

\* C22: the INSERT of a create whose date and issue are non-empty adds exactly
\* one row, under an id no stored row has, Active (is_deleted 0, deleted_at
\* NULL), with the request's content and an updated_at_ts above 0, and leaves
\* every other row as it was; the rest of the handler changes no row and
\* answers 201 with that id and that updated_at_ts.
C22_CreateAddsOneActiveRow ==
  [][\A p \in Procs :
       /\ (pc[p] = "create_insert" /\ StepOf(p))
          => LET id == req'[p].id
             IN /\ id \notin DOMAIN store
                /\ DOMAIN store' = DOMAIN store \cup {id}
                /\ \A k \in DOMAIN store : store'[k] = store[k]
                /\ Content(store'[id]) = Content(req[p].body)
                /\ store'[id].date # <<>> /\ store'[id].issue # <<>>
                /\ store'[id].is_deleted = 0 /\ store'[id].deleted_at = NULL
                /\ store'[id].updated_at_ts = req[p].nowTs
                /\ store'[id].updated_at_ts > 0
       /\ (pc[p] = "create_backfill" /\ StepOf(p))
          => ( /\ store' = store
               /\ resp'[p].status = 201 /\ resp'[p].ok
               /\ resp'[p].id = req[p].id
               /\ resp'[p].updated_at_ts = req[p].nowTs )
    ]_vars

\* a create has answered 201 with id 2 while row 1 is stored, and row 2 is
\* still the Active row the INSERT made, under the version the answer carries
C22_Witness ==
  \E p \in Procs :
    /\ pc[p] = "done" /\ req[p].kind = "create" /\ resp[p].status = 201
    /\ resp[p].id = 2 /\ DOMAIN store = {1, 2}
    /\ store[2].is_deleted = 0 /\ store[2].deleted_at = NULL
    /\ store[2].updated_at_ts = resp[p].updated_at_ts

\* C23: the UPDATE of a non-forced update that carries the numeric version
\* token and changes the row stores an updated_at_ts strictly above the one
\* the row had (the token it carried).
C23_UpdateRaisesVersion ==
  [][\A p \in Procs :
       (pc[p] = "put_write" /\ StepOf(p) /\ ~req[p].force /\ req[p].hasClientTs
          /\ req'[p].changes = 1)
       => store'[req[p].id].updated_at_ts > store[req[p].id].updated_at_ts
    ]_vars

\* the ids of the rows of a listing response
DataIdSet(rs) == {rs.data[k].id : k \in 1..Len(rs.data)}

\* the tickets of the table that are Deleted (trash) or Active (not trash)
InState(st, trash) == {i \in DOMAIN st : (st[i].is_deleted = 1) <=> trash}

\* C24: a page of the Active listing carries only rows with is_deleted 0, a
\* page of the trash listing only rows with is_deleted 1, and a first page
\* large enough carries all of them; the UPDATE of a soft delete that changes
\* its ticket leaves it out of the Active rows and among the Deleted rows with
\* deleted_at set, and the UPDATE of a restore that changes its ticket does
\* the reverse, with deleted_at NULL.
C24_ListingFollowsIsDeleted ==
  [][\A p \in Procs :
       /\ (pc[p] = "list_rows" /\ StepOf(p))
          => ( /\ DataIdSet(resp'[p]) \subseteq InState(store, req[p].trash)
               /\ \A k \in 1..Len(resp'[p].data) :
                    resp'[p].data[k].row = store[resp'[p].data[k].id]
               /\ ( /\ ~req[p].cursor.ok /\ req[p].page = 1
                    /\ Cardinality(InState(store, req[p].trash)) <= req[p].pageSize )
                  => DataIdSet(resp'[p]) = InState(store, req[p].trash) )
       /\ (pc[p] = "delete_write" /\ pc'[p] = "done")
          => ( /\ req[p].id \in InState(store, FALSE)
               /\ req[p].id \in InState(store', TRUE)
               /\ req[p].id \notin InState(store', FALSE)
               /\ store'[req[p].id].deleted_at # NULL )
       /\ (pc[p] = "restore_write" /\ pc'[p] = "done")
          => ( /\ req[p].id \in InState(store, TRUE)
               /\ req[p].id \in InState(store', FALSE)
               /\ req[p].id \notin InState(store', TRUE)
               /\ store'[req[p].id].deleted_at = NULL )
    ]_vars

\* the trash listing has answered with a ticket that was created Active and
\* then soft deleted, and the Active rows of the table do not include it
C24_Witness ==
  \E p \in Procs :
    /\ pc[p] = "done" /\ req[p].kind = "list" /\ req[p].trash
    /\ resp[p].status = 200 /\ Len(resp[p].data) = 1
    /\ resp[p].data[1].row.is_deleted = 1
    /\ resp[p].data[1].row.deleted_at # NULL
    /\ Content(resp[p].data[1].row) = Content(BodyA)
    /\ resp[p].data[1].id \notin InState(store, FALSE)

\* the positions of the incoming records that carry no id, or an id that is
\* not in ids and that no earlier record of the payload carries
FreshRecords(incoming, ids) ==
  {k \in 1..Len(incoming) :
     \/ incoming[k].id = NoId
     \/ /\ incoming[k].id \notin ids
        /\ \A j \in 1..(k - 1) : incoming[j].id # incoming[k].id}

\* a finished preview counts as inserts the records without id and those whose
\* id has no row
PreviewCountsFresh(p) ==
  ( /\ pc[p] = "done" /\ req[p].kind = "preview" /\ resp[p].status = 200 )
  => resp[p].totals.inserts
       = Cardinality(FreshRecords(previewNormalizeAll(req[p].payload), DOMAIN store))

\* a finished apply counts them as inserts too, with or without a version
\* field, and the table holds each of them that carries an id
ApplyInsertsFresh(p) ==
  ( /\ pc[p] = "done" /\ req[p].kind = "apply" /\ resp[p].status = 200
    /\ "snapshot" \in DOMAIN req[p] )
  => LET fresh == FreshRecords(req[p].incoming, DOMAIN req[p].snapshot)
     IN /\ resp[p].totals.inserts = Cardinality(fresh)
        /\ \A k \in fresh :
             req[p].incoming[k].id # NoId
             => ( /\ req[p].incoming[k].id \in DOMAIN store
                  /\ Content(store[req[p].incoming[k].id]) = Content(req[p].incoming[k]) )

\* C25: an incoming record without id, or whose id has no stored row, is
\* counted as an insert by the preview and by the apply, also when it has no
\* version field, and the apply stores it.
C25_UnmatchedIsInsert ==
  \A p \in Procs : PreviewCountsFresh(p) /\ ApplyInsertsFresh(p)

\* the version (inTs, inStr) of an incoming record is older than or equal
\* to the version (exTs, exStr) of the stored row: by number when the record
\* has a positive updated_at_ts, else by the text of updated_at
NotNewer(inTs, inStr, exTs, exStr) ==
  IF inTs > 0 THEN inTs <= exTs ELSE ~StrLess(exStr, inStr)

\* the positions of the incoming records that carry a version and the id of
\* a row of existingMap whose version is not older than theirs
StaleRecords(incoming, existingMap) ==
  {k \in 1..Len(incoming) :
     /\ incoming[k].id \in DOMAIN existingMap
     /\ incoming[k].updated_at_ts > 0 \/ incoming[k].updated_at # <<>>
     /\ NotNewer(incoming[k].updated_at_ts, incoming[k].updated_at,
                 existingMap[incoming[k].id].ts, existingMap[incoming[k].id].s)}

\* a finished preview or apply counts every such record as a skip, and every
\* skip under skipped_newer_or_equal
CountsStale(p) ==
  /\ ( /\ pc[p] = "done" /\ req[p].kind = "preview" /\ resp[p].status = 200 )
     => LET incoming == previewNormalizeAll(req[p].payload)
        IN /\ resp[p].totals.skips
                >= Cardinality(StaleRecords(incoming,
                                            fetchExistingMap(store, IncomingIds(incoming))))
           /\ resp[p].totals.skipped_newer_or_equal = resp[p].totals.skips
  /\ ( /\ pc[p] = "done" /\ req[p].kind = "apply" /\ resp[p].status = 200
       /\ "snapshot" \in DOMAIN req[p] )
     => ( /\ resp[p].totals.skips
                >= Cardinality(StaleRecords(req[p].incoming, req[p].snapshot))
          /\ resp[p].totals.skipped_newer_or_equal = resp[p].totals.skips )

\* the records of the chunk a batch of p is about to run that carry id
ChunkRecordsOf(p, id) ==
  LET chunk == Chunk(req[p].incoming, req[p].i)
  IN {chunk[k] : k \in {j \in 1..Len(chunk) : chunk[j].id = id}}

\* a batch leaves alone every row that the chunk addresses only with records
\* whose version is older than or equal to the row's
BatchKeepsNewerRows(p) ==
  (pc[p] = "apply_batch" /\ StepOf(p))
  => \A id \in DOMAIN store :
       ( /\ ChunkRecordsOf(p, id) # {}
         /\ \A r \in ChunkRecordsOf(p, id) :
              /\ r.has_version
              /\ NotNewer(r.updated_at_ts, r.updated_at,
                          NumberOrZero(store[id].updated_at_ts),
                          StringOrEmpty(store[id].updated_at)) )
       => (id \in DOMAIN store' /\ store'[id] = store[id])

MalformedKinds == {"empty", "not_base64", "not_json", "empty_v", "no_id", "null_id"}

\* the answer to the same request without cursor parameter: LIMIT pageSize
\* OFFSET (page - 1) * pageSize of the ordered listing
OffsetPage(st, trash, pageSize, page) ==
  LimitOffset(Ordered(st, trash, InState(st, trash)), pageSize, (page - 1) * pageSize)

\* the row query of a listing request whose cursor parameter is of one of
\* kinds answers 200 with the offset-mode page
AnswersInOffsetMode(p, kinds) ==
  ( /\ pc[p] = "list_rows" /\ StepOf(p)
    /\ "rawKind" \in DOMAIN req[p] /\ req[p].rawKind \in kinds )
  => ( /\ ~req[p].cursor.ok
       /\ resp'[p].status = 200
       /\ DataIds(resp'[p]) = OffsetPage(store, req[p].trash, req[p].pageSize, req[p].page)
       /\ resp'[p].page = req[p].page /\ resp'[p].pageSize = req[p].pageSize
       /\ resp'[p].total = Cardinality(InState(store, req[p].trash)) )

\* C27: a listing request whose cursor parameter is empty, not base64url, not
\* JSON, or without a non-empty v or a finite id is answered without error, in
\* offset mode, as the same request without cursor parameter would be.
C27_BadCursorIsNoCursor ==
  [][\A p \in Procs : AnswersInOffsetMode(p, MalformedKinds)]_vars

\* the answer rs is the not-found error
IsNotFound(rs) == rs.status = 404 /\ ~rs.ok /\ rs.error = "not_found"

\* the request of p addresses an id that has no row
TargetMissing(p) == req[p].id \notin DOMAIN store

\* C28: an update (with a valid body), a soft delete, a restore and a hard
\* delete whose id has no row answer 404 not_found, and none of their steps
\* changes the table.
C28_MissingIdIsNotFound ==
  [][\A p \in Procs :
       /\ (pc[p] = "put_read" /\ StepOf(p) /\ TargetMissing(p))
          => (IsNotFound(resp'[p]) /\ pc'[p] = "done" /\ store' = store)
       /\ (pc[p] = "delete_write" /\ StepOf(p) /\ TargetMissing(p))
          => (pc'[p] = "delete_check" /\ store' = store)
       /\ (pc[p] = "delete_check" /\ StepOf(p) /\ TargetMissing(p))
          => (IsNotFound(resp'[p]) /\ pc'[p] = "done" /\ store' = store)
       /\ (pc[p] = "restore_write" /\ StepOf(p) /\ TargetMissing(p))
          => (pc'[p] = "restore_check" /\ store' = store)
       /\ (pc[p] = "restore_check" /\ StepOf(p) /\ TargetMissing(p))
          => (IsNotFound(resp'[p]) /\ pc'[p] = "done" /\ store' = store)
       /\ (pc[p] = "idle" /\ StepOf(p) /\ req'[p].kind = "hard"
             /\ req'[p].id \notin DOMAIN store)
          => (IsNotFound(resp'[p]) /\ pc'[p] = "done" /\ store' = store)
    ]_vars

\* a soft delete of id 2 has answered not_found on a table that holds row 1
\* only
C28_Witness ==
  \E p \in Procs :
    /\ pc[p] = "done" /\ req[p].kind = "delete" /\ req[p].id = 2
    /\ IsNotFound(resp[p])
    /\ DOMAIN store = {1} /\ req[p].seen = <<>>

\* isNewer of the classification rule: by number when the incoming record
\* has a positive updated_at_ts, else by the text of updated_at
IsNewer(r, row) ==
  IF r.updated_at_ts > 0 THEN r.updated_at_ts > NumberOrZero(row.updated_at_ts)
  ELSE StrLess(StringOrEmpty(row.updated_at), r.updated_at)

\* the positions of the chunk a batch of p is about to run that carry id
ChunkPositionsOf(p, id) ==
  {k \in 1..Len(Chunk(req[p].incoming, req[p].i)) : Chunk(req[p].incoming, req[p].i)[k].id = id}

\* C29: a batch of import apply overwrites a stored row that one record of
\* its chunk addresses exactly when that record has version information and
\* is newer than the row as the classification rule compares them.
C29_WriteFollowsClassification ==
  [][\A p \in Procs :
       (pc[p] = "apply_batch" /\ StepOf(p))
       => \A id \in DOMAIN store :
            Cardinality(ChunkPositionsOf(p, id)) = 1
            => LET r == Chunk(req[p].incoming, req[p].i)[CHOOSE k \in ChunkPositionsOf(p, id) : TRUE]
               IN (store'[id] # store[id]) <=> (r.has_version /\ IsNewer(r, store[id]))
    ]_vars

\* C30: a non-forced update that carries neither updated_at_ts nor
\* updated_at is answered with an error after the lookup and never reaches
\* the UPDATE (400 missing_version when its ticket is there and Active), the
\* table staying as it was; the UPDATE of a forced update that meets its
\* ticket Active writes the request's fields and Date.now() whatever
\* updated_at_ts and updated_at the row carries, and the handler answers ok.
C30_MissingVersionAndForce ==
  [][\A p \in Procs :
       /\ ( /\ pc[p] = "put_read" /\ StepOf(p)
            /\ ~req[p].force /\ ~req[p].hasClientTs /\ req[p].clientUpdatedAt = <<>> )
          => ( /\ pc'[p] = "done" /\ ~resp'[p].ok /\ store' = store
               /\ (req[p].id \in DOMAIN store /\ ~isDeletedRow(store[req[p].id]))
                  => (resp'[p].status = 400 /\ resp'[p].error = "missing_version") )
       /\ ( /\ pc[p] = "put_write" /\ StepOf(p) /\ req[p].force
            /\ req[p].id \in DOMAIN store /\ ~isDeletedRow(store[req[p].id]) )
          => ( /\ req'[p].changes = 1
               /\ Content(store'[req[p].id]) = Content(req[p].body)
               /\ store'[req[p].id].updated_at_ts = req[p].nowTs
               /\ store'[req[p].id].is_deleted = 0 )
       /\ (pc[p] = "put_reply" /\ StepOf(p) /\ req[p].force)
          => (resp'[p].status = 200 /\ resp'[p].ok)
    ]_vars

\* a forced update has answered ok; the row carries its fields, and the
\* version it replaced was ahead of the clock reading the update wrote
C30_Witness ==
  \E p \in Procs :
    /\ pc[p] = "done" /\ req[p].kind = "put" /\ req[p].force
    /\ resp[p].status = 200 /\ "current" \in DOMAIN req[p]
    /\ req[p].changes = 1
    /\ req[p].current.updated_at_ts > req[p].nowTs
    /\ req[p].id \in DOMAIN store
    /\ Content(store[req[p].id]) = Content(req[p].body)
    /\ store[req[p].id].updated_at_ts = req[p].nowTs

\* the UPDATE of a soft delete of p has changed its ticket / of a restore
SoftDeleted(p) == pc[p] = "delete_write" /\ pc'[p] = "done"

Restored(p) == pc[p] = "restore_write" /\ pc'[p] = "done"

\* what these UPDATEs do to the lifecycle columns and to the content
LifecycleColumns(p) ==
  /\ SoftDeleted(p)
     => ( /\ store[req[p].id].is_deleted = 0
          /\ store'[req[p].id].is_deleted = 1
          /\ store'[req[p].id].deleted_at = CurrentTimestamp(now)
          /\ Content(store'[req[p].id]) = Content(store[req[p].id]) )
  /\ Restored(p)
     => ( /\ store[req[p].id].is_deleted = 1
          /\ store'[req[p].id].is_deleted = 0
          /\ store'[req[p].id].deleted_at = NULL
          /\ Content(store'[req[p].id]) = Content(store[req[p].id]) )

\* the version they store is the handler's Date.now() and is not the version
\* the row had
MintsVersion(p) ==
  (SoftDeleted(p) \/ Restored(p))
  => ( /\ store'[req[p].id].updated_at_ts = req[p].nowTs
       /\ store'[req[p].id].updated_at_ts # store[req[p].id].updated_at_ts )

\* C31: the UPDATE of a soft delete that changes its ticket turns it from
\* Active to Deleted with deleted_at the current time, the UPDATE of a restore
\* turns it from Deleted to Active with deleted_at NULL; both leave the seven
\* content columns as they were and store a version the row did not have.
C31_LifecycleTransitions ==
  [][\A p \in Procs : LifecycleColumns(p) /\ MintsVersion(p)]_vars

\* the answer rs of an import apply reports a rebuild of the search index
ReportsRebuild(rs) == "fts_rebuild" \in DOMAIN rs

\* C32: an import apply goes on to the rebuild of the search index after its
\* last batch exactly when it has counted an insert or an update; an apply
\* that answers without that step (nothing counted, nothing incoming, or a
\* batch that failed) reports no rebuild; the rebuild step changes no row and
\* answers ok with the totals and what the rebuild returned, failure included.
C32_RebuildAfterChanges ==
  [][\A p \in Procs :
       /\ (pc[p] = "apply_batch" /\ StepOf(p) /\ pc'[p] # "apply_batch")
          => ( /\ (pc'[p] = "apply_fts")
                  <=> ( req[p].totals.inserts + req[p].totals.updates > 0
                        /\ ~(pc'[p] = "done" /\ resp'[p].status = 500) )
               /\ pc'[p] = "done" => ~ReportsRebuild(resp'[p])
               /\ (pc'[p] = "done" /\ resp'[p].status = 500) => store' = store )
       /\ (pc[p] = "apply_fetch" /\ StepOf(p))
          => ( /\ pc'[p] # "apply_fts"
               /\ pc'[p] = "done" => ~ReportsRebuild(resp'[p]) )
       /\ (pc[p] = "apply_fts" /\ StepOf(p))
          => ( /\ store' = store
               /\ resp'[p].status = 200 /\ resp'[p].ok
               /\ resp'[p].totals = req[p].totals
               /\ ReportsRebuild(resp'[p])
               /\ req[p].totals.inserts + req[p].totals.updates > 0 )
    ]_vars

\* an import has answered ok and reports a rebuild that failed with an
\* error; the row it inserted is in the table
C32_Witness ==
  \E p \in Procs :
    /\ pc[p] = "done" /\ req[p].kind = "apply" /\ resp[p].status = 200 /\ resp[p].ok
    /\ ReportsRebuild(resp[p]) /\ ~resp[p].fts_rebuild.ok
    /\ "error" \in DOMAIN resp[p].fts_rebuild
    /\ resp[p].totals.inserts = 1
    /\ req[p].payload = Payload(<<RecNum>>, <<>>)
    /\ 1 \in DOMAIN store /\ Content(store[1]) = Content(RecNum)

\* the is_deleted the normalization of payload owes its k-th record: the
\* record's own flag in a flat array, else the part the record came from
OwedIsDeleted(payload, k) ==
  IF payload.flat
  THEN (IF payload.active[k].is_deleted_flag = 1 THEN 1 ELSE 0)
  ELSE (IF k <= Len(payload.active) THEN 0 ELSE 1)

\* C33: normalizeAll of import apply and of import preview give every record
\* of the payload of a request the is_deleted of its part when the payload is
\* {active, trash}, and of its own flag when the payload is a flat array; a
\* finished apply that inserted such a record has stored it so.
C33_IsDeletedFromPartOrFlag ==
  \A p \in Procs :
    (req[p].kind \in {"apply", "preview"})
    => LET payload == req[p].payload
           n == Len(payload.active) + Len(payload.trash)
       IN /\ \A k \in 1..n :
               /\ normalizeAll(payload)[k].is_deleted = OwedIsDeleted(payload, k)
               /\ previewNormalizeAll(payload)[k].is_deleted = OwedIsDeleted(payload, k)
          /\ ( /\ req[p].kind = "apply" /\ pc[p] = "done" /\ resp[p].status = 200
               /\ n = 1 /\ resp[p].totals.inserts = 1
               /\ payload.active \o payload.trash = <<RecFlagged>> )
             => store[RecFlagged.id].is_deleted = OwedIsDeleted(payload, 1)

\* the cursor token raw decodes to the (sort value, id) of page entry x
EncodesRow(raw, x, trash) ==
  /\ raw # NULL
  /\ decodeCursor(raw) = [ok |-> TRUE, v |-> SortValue(x.row, trash), id |-> x.id]

\* C34: the next_cursor of a non-empty page decodes to the (sort value, id)
\* of the page's last row and its prev_cursor to that of its first row; and
\* a direction=prev request that carries the prev_cursor of a page reached
\* with the next_cursor of a full page P returns exactly the rows of P, in
\* P's order.
C34_CursorsRoundTrip ==
  [][\A p \in Procs :
       (pc[p] = "list_rows" /\ StepOf(p))
       => LET rs == resp'[p]
              n == Len(rs.data)
          IN /\ n > 0 => /\ EncodesRow(rs.next_cursor, rs.data[n], req[p].trash)
                         /\ EncodesRow(rs.prev_cursor, rs.data[1], req[p].trash)
             /\ req[p].expect # <<>> => DataIds(rs) = req[p].expect
    ]_vars

\* C35: no step of a soft-delete request takes a row out of the table,
\* whether its store calls succeed or throw; in particular the ticket the
\* request addresses is still stored (Active or Deleted) when it has answered.
C35_SoftDeleteKeepsRow ==
  [][\A p \in Procs :
       (StepOf(p) /\ req'[p].kind = "delete")
       => \A i \in DOMAIN store : i \in DOMAIN store'
    ]_vars

\* the UPDATE of the update request of p has just put the request's fields
\* and the version stamped by the request into the row
WroteItsFields(p) ==
  LET r == req[p]
  IN /\ r.id \in DOMAIN store'
     /\ Content(store'[r.id]) = Content(r.body)
     /\ store'[r.id].updated_at_ts = r.nowTs
     /\ store'[r.id].updated_at = CurrentTimestamp(now)

\* C36: an update answers ok only when its UPDATE changed the row, and an
\* UPDATE that changed the row left the request's content fields and the
\* version minted by the request in it, whatever other requests did between
\* the request's existence check and its write.
C36_OkUpdateHasWritten ==
  [][\A p \in Procs :
       /\ (pc[p] = "put_write" /\ StepOf(p) /\ req'[p].changes = 1) => WroteItsFields(p)
       /\ (pc[p] = "put_reply" /\ StepOf(p) /\ resp'[p].ok) => req[p].changes = 1
    ]_vars

\* C37: no step of an update request, forced or not, changes the content
\* fields (date, issue, department, name, solution, remarks, type) of a row
\* that is Deleted when the step is taken, however the update interleaves
\* with soft deletes of the same id.
C37_UpdateSparesDeleted ==
  [][\A p \in Procs :
       (StepOf(p) /\ req'[p].kind = "put")
       => \A i \in DOMAIN store :
            isDeletedRow(store[i]) => (i \in DOMAIN store' /\ Content(store'[i]) = Content(store[i]))
    ]_vars

\* what the statements of a batch do, record by record, from database db:
\* how many create a row, how many overwrite a stored row, and how many leave
\* the table as it is
RECURSIVE WriteCounts(_, _, _, _)
WriteCounts(db, chunk, nowTs, dbNow) ==
  IF chunk = <<>> THEN [created |-> 0, overwritten |-> 0, unchanged |-> 0]
  ELSE LET nxt == Upsert(db, Head(chunk), nowTs, dbNow)
           rest == WriteCounts(nxt, Tail(chunk), nowTs, dbNow)
       IN IF DOMAIN nxt.st # DOMAIN db.st THEN [rest EXCEPT !.created = @ + 1]
          ELSE IF nxt.st # db.st THEN [rest EXCEPT !.overwritten = @ + 1]
          ELSE [rest EXCEPT !.unchanged = @ + 1]

\* C38: when an import-apply of a single batch has written (no other writer
\* in between), its totals are what its statements did: inserts is the
\* number of records that created a row (and of rows the table gained),
\* updates the number of records that overwrote a stored row, skips the
\* number of records that changed nothing.
C38_TotalsMatchWrites ==
  [][\A p \in Procs :
       ( /\ pc[p] = "apply_batch" /\ StepOf(p) /\ pc'[p] # "apply_batch"
         /\ req[p].i = 0 /\ resp'[p].status # 500 )
       => LET r == req[p]
              w == WriteCounts([st |-> store, sq |-> seq], Chunk(r.incoming, 0), r.nowTs, now)
          IN /\ r.totals.inserts = w.created
             /\ r.totals.inserts = Cardinality(DOMAIN store' \ DOMAIN store)
             /\ r.totals.updates = w.overwritten
             /\ r.totals.skips = w.unchanged
    ]_vars

\* a step of a soft delete during which a store call throws (the case of C35)
ThrowingDelete(p) == pc[p] = "idle" /\ req'[p].kind = "delete"

Orders(n) == {f \in [1..n -> 1..n] : \A i, j \in 1..n : f[i] = f[j] => i = j}

\* C40: the table an import-apply batch leaves is the table the same batch
\* leaves with its records in any other order (records that all carry an
\* id; up to three records).
C40_OrderIndependent ==
  [][\A p \in Procs :
       ( /\ pc[p] = "apply_batch" /\ StepOf(p) /\ resp'[p].status # 500
         /\ Len(Chunk(req[p].incoming, req[p].i)) <= 3
         /\ \A k \in 1..Len(Chunk(req[p].incoming, req[p].i)) :
              Chunk(req[p].incoming, req[p].i)[k].id # NoId )
       => LET r == req[p]
              chunk == Chunk(r.incoming, r.i)
          IN \A f \in Orders(Len(chunk)) :
               ApplyBatch([st |-> store, sq |-> seq], [k \in 1..Len(chunk) |-> chunk[f[k]]],
                          r.nowTs, now).st = store'
    ]_vars
====
